---- MODULE Spec2Model ----
(***************************************************************************)
(* Navigation & page-readiness engine of trmnl-home-assistant.             *)
(*                                                                         *)
(* NavigateToPage (lib/browser/navigation-commands) driven against one     *)
(* browser session.  URLs are texts: sequences of one-character strings,   *)
(* so that String.prototype.startsWith and the URL parser/serialiser are   *)
(* modelled by what they do to the characters.                             *)
(*                                                                         *)
(* Environment of NavigateToPage: page.goto() may resolve with a response  *)
(* of any status, resolve with no response, or reject.  Registering the    *)
(* before-next-document script and the in-page evaluate resolve (as the    *)
(* mock page of tests/unit/navigation-commands.test.ts does).              *)
(***************************************************************************)
EXTENDS Integers, Sequences, FiniteSets, TLC

\* ------------------------------------------------------------------------
\* Bounds
\* ------------------------------------------------------------------------

\* number of NavigateToPage.call invocations on the session
MaxCalls == 2

\* ------------------------------------------------------------------------
\* Program constants (lib/const.js, imported by navigation-commands)
\* ------------------------------------------------------------------------
\* const.js is not among the sources at hand: 750 is the default wait the
\* README documents, the cold-start penalty is a representative value.  No
\* property below depends on the two numbers beyond their being positive.

DEFAULT_WAIT_TIME == 750

COLD_START_EXTRA_WAIT == 2500

\* ------------------------------------------------------------------------
\* Texts
\* ------------------------------------------------------------------------

\* "" / undefined: both are falsy for `targetUrl || ...` and `!!targetUrl`
NoUrl == << >>

Http == <<"h", "t", "t", "p">>

Https == <<"h", "t", "t", "p", "s">>

Sep == <<":", "/", "/">>

HostHA == <<"h", "a">>

HostHAB == <<"h", "a", "b">>

HostOther == <<"g", "r">>

Port80 == <<"8", "0">>

Port443 == <<"4", "4", "3">>

Port8123 == <<"8", "1", "2", "3">>

Port81234 == <<"8", "1", "2", "3", "4">>

Colon == <<":">>

PathA == <<"/", "a">>

PathB == <<"/", "b">>

AboutBlank == <<"a", "b", "o", "u", "t", ":", "b", "l", "a", "n", "k">>

\* String.prototype.startsWith
StartsWith(s, p) ==
    /\ Len(p) <= Len(s)
    /\ SubSeq(s, 1, Len(p)) = p

\* first index of a character of cs in s, Len(s) + 1 when there is none
Find(s, cs) ==
    LET I == {i \in 1..Len(s) : s[i] \in cs}
    IN  IF I = {} THEN Len(s) + 1
        ELSE CHOOSE i \in I : \A j \in I : i <= j

DefaultPort(scheme) ==
    IF scheme = Http THEN Port80
    ELSE IF scheme = Https THEN Port443
    ELSE << >>

\* WHATWG URL parser, for absolute URL texts: scheme, host, port (a default
\* port is dropped at parse time), path ("/" when the text has none).  A
\* text without "//" after the scheme (about:blank) has an opaque path.
ParseURL(s) ==
    LET i         == Find(s, {":"})
        scheme    == SubSeq(s, 1, i - 1)
        hier      == /\ i + 2 <= Len(s)
                     /\ s[i + 1] = "/"
                     /\ s[i + 2] = "/"
        rest      == SubSeq(s, i + 3, Len(s))
        j         == Find(rest, {"/"})
        authority == SubSeq(rest, 1, j - 1)
        k         == Find(authority, {":"})
        host      == SubSeq(authority, 1, k - 1)
        port      == SubSeq(authority, k + 1, Len(authority))
    IN  IF hier
        THEN [special |-> TRUE,
              scheme  |-> scheme,
              host    |-> host,
              port    |-> IF port = DefaultPort(scheme) THEN << >> ELSE port,
              path    |-> IF j > Len(rest) THEN <<"/">>
                          ELSE SubSeq(rest, j, Len(rest))]
        ELSE [special |-> FALSE,
              scheme  |-> scheme,
              host    |-> << >>,
              port    |-> << >>,
              path    |-> SubSeq(s, i + 1, Len(s))]

\* URL.prototype.toString (the URL serialiser)
SerializeURL(u) ==
    IF u.special
    THEN u.scheme \o Sep \o u.host
         \o (IF u.port = << >> THEN << >> ELSE Colon \o u.port)
         \o u.path
    ELSE u.scheme \o Colon \o u.path

\* new URL(pagePath, base).toString() for a path-absolute pagePath ("/...")
ResolveURL(pagePath, base) ==
    SerializeURL([ParseURL(base) EXCEPT !.path = pagePath])

\* the URL text the browser reports for a document loaded from url
BrowserUrl(url) == SerializeURL(ParseURL(url))

\* origin of a URL text: scheme, host and port with the default port absent
Origin(url) ==
    LET u == ParseURL(url)
    IN  IF u.special THEN <<u.scheme, u.host, u.port>> ELSE <<"null">>

\* ------------------------------------------------------------------------
\* Inputs
\* ------------------------------------------------------------------------

\* configured Home Assistant base URLs (hassUrl)
BaseUrls ==
    { Http \o Sep \o HostHA \o Colon \o Port80,
      Https \o Sep \o HostHA \o Colon \o Port443,
      Http \o Sep \o HostHA,
      Http \o Sep \o HostHA \o Colon \o Port8123,
      Https \o Sep \o HostHA \o Colon \o Port8123 }

PagePaths == {PathA, PathB}

\* explicit target URLs (schedule.target_url / ?url=)
TargetUrls ==
    { NoUrl,
      Http \o Sep \o HostOther \o PathA,
      Http \o Sep \o HostHA \o PathA,
      Http \o Sep \o HostHA \o Colon \o Port80 \o PathA,
      Http \o Sep \o HostHA \o Colon \o Port8123 \o PathA,
      Http \o Sep \o HostHA \o Colon \o Port81234 \o PathA,
      Http \o Sep \o HostHAB \o PathA }

\* documents a pooled session may be showing when a call starts
SessionUrls ==
    { AboutBlank,
      Http \o Sep \o HostHA \o PathB,
      Https \o Sep \o HostHA \o PathB,
      Http \o Sep \o HostHA \o Colon \o Port8123 \o PathB,
      Http \o Sep \o HostHA \o Colon \o Port81234 \o PathB,
      Http \o Sep \o HostOther \o PathB }

Statuses == {200, 204, 404, 500}

\* what page.goto() settles with
GotoOutcomes ==
    [kind : {"response"}, status : Statuses]
        \cup {[kind |-> "null", status |-> 0], [kind |-> "throw", status |-> 0]}

\* HTTPResponse.ok(): status in the range 200-299
ResponseOk(outcome) ==
    /\ outcome.kind = "response"
    /\ outcome.status >= 200
    /\ outcome.status <= 299

NoId == 0

\* `let response` before goto has settled
NoOutcome == [kind |-> "pending", status |-> 0]

\* ------------------------------------------------------------------------
\* State
\* ------------------------------------------------------------------------

VARIABLES
    homeAssistantUrl,  \* NavigateToPage.#homeAssistantUrl
    isAddOn,           \* const.js isAddOn
    currentUrl,        \* page.url(): the session's current document
    scripts,           \* identifiers of the registered before-next-document scripts
    nextId,            \* identifier the next registration returns
    pc,                \* where the running call is: idle, register, goto, evaluate
    call,              \* arguments and locals of the running (or last) call
    log,               \* page operations of the running (or last) call, in order
    gotoUrls,          \* URLs the running (or last) call passed to page.goto
    result,            \* how the last call ended
    ncalls,            \* calls started on this session
    authStorage,       \* NavigateToPage.#authStorage: (key, value) pairs
    authGiven,         \* the mapping the constructor was given
    scriptArgs,        \* argument of each registered script, by identifier
    doc                \* the document the running load is creating

authVars == <<authStorage, authGiven, scriptArgs, doc>>

navVars == <<homeAssistantUrl, isAddOn, currentUrl, scripts, nextId, pc, call,
             log, gotoUrls, result, ncalls, authVars>>

VARIABLES
    now,               \* Date.now(), in milliseconds
    wpl,               \* WaitForPageLoad.call: position, wait state, page
    wps,               \* WaitForPageStable.call: position, locals, samples
    wni,               \* WaitForNetworkIdle.call: position, locals, channel
    wlc                \* WaitForLoadingComplete.call: position, locals, page

detVars == <<now, wpl, wps, wni, wlc>>

VARIABLES
    schedule,          \* the Schedule given to resolveScreenshotTarget
    target             \* the ScreenshotTarget it returned

targetVars == <<schedule, target>>

VARIABLES
    DEFAULTS,          \* params-builder: the module-level DEFAULTS object
    params,            \* the ScreenshotParams buildParams returned last
    defaultsOut,       \* the objects getDefaults returned, oldest first
    lastDefaults,      \* what the last getDefaults() call returned, read then
    viewportWritten    \* a caller has written to a viewport it was handed

paramsVars == <<DEFAULTS, params, defaultsOut, lastDefaults, viewportWritten>>

VARIABLES
    hassToken,         \* ui: whether const.js exports a token
    ui                 \* handleUIRequest: position, locals, response

uiVars == <<hassToken, ui>>

VARIABLES
    rel,               \* scripts/release.js: arguments, files, git, position
    bumped             \* what a direct call of bumpVersion gave

releaseVars == <<rel, bumped>>

VARIABLES
    ix                 \* the interaction command in progress, and its page

interactVars == <<ix>>

VARIABLES
    app                \* App: sendNow in progress, saves and send in flight

appVars == <<app>>

VARIABLES
    pv                 \* PreviewGenerator: requests, preview pane elements

previewVars == <<pv>>

\* everything but the navigation command and the detectors
restVars == <<targetVars, paramsVars, uiVars, releaseVars, interactVars,
              appVars, previewVars>>

\* what a step of resolveScreenshotTarget leaves alone, besides schedule
besideTarget == <<navVars, detVars, paramsVars, uiVars, releaseVars,
                  interactVars, appVars, previewVars>>

\* what a step of params-builder leaves alone, besides schedule
besideParams == <<navVars, detVars, target, uiVars, releaseVars,
                  interactVars, appVars, previewVars>>

\* what a step of handleUIRequest leaves alone
besideUi == <<navVars, detVars, targetVars, paramsVars, releaseVars,
              interactVars, appVars, previewVars>>

\* what a step of the release script leaves alone
besideRelease == <<navVars, detVars, targetVars, paramsVars, uiVars,
                   interactVars, appVars, previewVars>>

\* what a step of an interaction command leaves alone
besideInteract == <<navVars, detVars, targetVars, paramsVars, uiVars,
                    releaseVars, appVars, previewVars>>

\* what a step of App leaves alone
besideApp == <<navVars, detVars, targetVars, paramsVars, uiVars,
               releaseVars, interactVars, previewVars>>

\* what a step of PreviewGenerator leaves alone
besidePreview == <<navVars, detVars, targetVars, paramsVars, uiVars,
                   releaseVars, interactVars, appVars>>

vars == <<navVars, detVars, restVars>>

\* a detector record before its call(): every detector starts from here
DetIdle == [pc |-> "idle"]

\* no readiness detector has been called
DetectorsIdle ==
    /\ now = 0
    /\ wpl = DetIdle
    /\ wps = DetIdle
    /\ wni = DetIdle
    /\ wlc = DetIdle

\* an optional value is << >> when undefined and <<v>> when it holds v
Undefined == << >>

Defined(v) == <<v>>

\* resolveScreenshotTarget has not been called
TargetIdle ==
    /\ schedule = Undefined
    /\ target = Undefined

NoResult == [kind |-> "none", waitTime |-> 0, status |-> 0, url |-> NoUrl]

NoCall ==
    [first |-> FALSE, pagePath |-> NoUrl, targetUrl |-> NoUrl,
     pageUrl |-> NoUrl, injectAuth |-> FALSE, evaluateId |-> NoId,
     startUrl |-> NoUrl, fullLoad |-> FALSE, response |-> NoOutcome]

\* const DEFAULTS = { viewport: { width: 758, height: 1024 }, ... }
DEFAULTS_LITERAL ==
    [viewport |-> [width |-> 758, height |-> 1024],
     extraWait |-> Undefined,
     invert |-> FALSE,
     zoom |-> 1,
     format |-> "png",
     dark |-> FALSE]

\* params-builder is loaded and none of its functions has been called
ParamsIdle ==
    /\ DEFAULTS = DEFAULTS_LITERAL
    /\ params = Undefined
    /\ defaultsOut = << >>
    /\ lastDefaults = Undefined
    /\ viewportWritten = FALSE

\* no UI request has arrived
UiIdle ==
    /\ hassToken = FALSE
    /\ ui = [pc |-> "idle"]

\* the release script has not been started
ReleaseIdle ==
    /\ rel = [pc |-> "idle"]
    /\ bumped = [kind |-> "none"]

\* no interaction command has been called
InteractIdle == ix = [pc |-> "idle"]

\* the App has been constructed and no handler has run
AppIdle == app = [pc |-> "idle"]

\* the preview pane as the page shows it before any preview is requested
PreviewIdle ==
    pv = [outcomes |-> << >>, order |-> << >>, image |-> 0,
          imageHidden |-> TRUE, loadingHidden |-> TRUE,
          errorHidden |-> TRUE, placeholderHidden |-> FALSE,
          currentBlobUrl |-> 0, revoked |-> {}]

\* no function outside the navigation command and the detectors has run
RestIdle ==
    /\ TargetIdle
    /\ ParamsIdle
    /\ UiIdle
    /\ ReleaseIdle
    /\ InteractIdle
    /\ AppIdle
    /\ PreviewIdle

\* a session on which NavigateToPage has not been called
\* no load has been issued
NoDoc == [stage |-> "none", storage |-> {}, seen |-> {}]

\* page.goto has been issued, no document yet
Requested == [stage |-> "requested", storage |-> {}, seen |-> {}]

\* mappings handed to the constructor
AuthStorages ==
    {{},
     {<<"hassTokens", "token">>},
     {<<"hassTokens", "token">>, <<"selectedLanguage", "en">>}}

\* what the origin's localStorage holds when a document is created
StoredBefore ==
    {{}, {<<"hassTokens", "stale">>, <<"dockedSidebar", "auto">>}}

NavIdle ==
    /\ authStorage = {}
    /\ authGiven = {}
    /\ scriptArgs = << >>
    /\ doc = NoDoc
    /\ homeAssistantUrl = Http \o Sep \o HostHA
    /\ isAddOn = FALSE
    /\ currentUrl = AboutBlank
    /\ scripts = {}
    /\ nextId = 1
    /\ pc = "idle"
    /\ call = NoCall
    /\ log = << >>
    /\ gotoUrls = << >>
    /\ result = NoResult
    /\ ncalls = 0

Init ==
    /\ authStorage = {<<"hassTokens", "token">>}
    /\ authGiven = authStorage
    /\ scriptArgs = << >>
    /\ doc = NoDoc
    /\ homeAssistantUrl \in BaseUrls
    /\ isAddOn \in BOOLEAN
    /\ currentUrl \in SessionUrls
    /\ scripts = {}
    /\ nextId = 1
    /\ pc = "idle"
    /\ call = NoCall
    /\ log = << >>
    /\ gotoUrls = << >>
    /\ result = NoResult
    /\ ncalls = 0
    /\ DetectorsIdle
    /\ RestIdle

\* ------------------------------------------------------------------------
\* NavigateToPage
\* ------------------------------------------------------------------------

\* #shouldInjectAuth
shouldInjectAuth(pageUrl, haUrl) == StartsWith(pageUrl, haUrl)

\* slip: the explicit URL is ignored, the path is always resolved
resolvePageUrl_IgnoreTarget(pagePath, targetUrl, haUrl) ==
    ResolveURL(pagePath, haUrl)

\* const pageUrl = targetUrl || new URL(pagePath, this.#homeAssistantUrl).toString()
resolvePageUrl(pagePath, targetUrl, haUrl) ==
    IF targetUrl # NoUrl THEN targetUrl ELSE ResolveURL(pagePath, haUrl)

\* slip: the catch branch forgets the removal
removeOnSettle_NotInCatch(evaluateId, outcome) ==
    /\ evaluateId # NoId
    /\ outcome.kind # "throw"

\* if (evaluateId) this.#page.removeScriptToEvaluateOnNewDocument(...), which
\* #firstNavigation has on each of its three exits
removeOnSettle(evaluateId, outcome) == evaluateId # NoId

\* slip: every failure reports status 0
gotoError_StatusZero(outcome, pageUrl) ==
    IF outcome.kind = "throw" \/ ~ResponseOk(outcome)
    THEN [kind |-> "CannotOpenPageError", waitTime |-> 0, status |-> 0,
          url |-> pageUrl]
    ELSE NoResult

\* the CannotOpenPageError a settled goto raises, none for an ok response
gotoError(outcome, pageUrl) ==
    IF outcome.kind = "throw"
    THEN [kind |-> "CannotOpenPageError", waitTime |-> 0, status |-> 0,
          url |-> pageUrl]
    ELSE IF ~ResponseOk(outcome)
    THEN [kind |-> "CannotOpenPageError", waitTime |-> 0,
          status |-> IF outcome.kind = "response" THEN outcome.status ELSE 0,
          url |-> pageUrl]
    ELSE NoResult

\* waitTime of #firstNavigation
firstWaitTime(addOn) ==
    DEFAULT_WAIT_TIME + (IF addOn THEN COLD_START_EXTRA_WAIT ELSE 0)

\* slip: the cold-start penalty is added on every navigation
subsequentWaitTime_ColdStart(addOn) ==
    DEFAULT_WAIT_TIME + (IF addOn THEN COLD_START_EXTRA_WAIT ELSE 0)

\* waitTime of #subsequentNavigation
subsequentWaitTime(addOn) == DEFAULT_WAIT_TIME

Returned(waitTime) ==
    [kind |-> "ok", waitTime |-> waitTime, status |-> 0, url |-> NoUrl]

\* localStorage.setItem(key, value)
setItem(storage, key, value) ==
    {p \in storage : p[1] # key} \cup {<<key, value>>}

\* slip: the script writes the token entry only
authHook_TokensOnly(localStorage, storage) ==
    {p \in localStorage :
        \A q \in storage : q[1] = "hassTokens" => q[1] # p[1]}
        \cup {q \in storage : q[1] = "hassTokens"}

\* for (const [key, value] of Object.entries(storage))
\*   localStorage.setItem(key, value)
RECURSIVE authHook(_, _)
authHook(localStorage, storage) ==
    IF storage = {} THEN localStorage
    ELSE LET entry == CHOOSE q \in storage : TRUE
         IN  authHook(setItem(localStorage, entry[1], entry[2]),
                      storage \ {entry})

\* the registered scripts run in a new document, oldest first
RECURSIVE RunScripts(_, _, _)
RunScripts(localStorage, ids, args) ==
    IF ids = {} THEN localStorage
    ELSE LET id == CHOOSE i \in ids : \A j \in ids : i <= j
         IN  RunScripts(authHook(localStorage, args[id]), ids \ {id}, args)

\* if (isGenericUrl || !isCurrentlyOnHA)
useFullLoad(targetUrl, pageUrlNow, haUrl) ==
    \/ targetUrl # NoUrl
    \/ ~StartsWith(pageUrlNow, haUrl)

\* call(pagePath, true, targetUrl) up to its first await
FirstNavigation(pagePath, targetUrl) ==
    /\ pc = "idle"
    /\ ncalls < MaxCalls
    /\ LET pageUrl    == resolvePageUrl(pagePath, targetUrl, homeAssistantUrl)
           injectAuth == shouldInjectAuth(pageUrl, homeAssistantUrl)
       IN  /\ call' = [first |-> TRUE, pagePath |-> pagePath,
                       targetUrl |-> targetUrl, pageUrl |-> pageUrl,
                       injectAuth |-> injectAuth, evaluateId |-> NoId,
                       startUrl |-> currentUrl, fullLoad |-> TRUE,
                       response |-> NoOutcome]
           /\ log' = IF injectAuth THEN <<"evaluateOnNewDocument">>
                     ELSE <<"goto">>
           /\ gotoUrls' = IF injectAuth THEN << >> ELSE <<pageUrl>>
           /\ pc' = IF injectAuth THEN "register" ELSE "goto"
    /\ result' = NoResult
    /\ ncalls' = ncalls + 1
    /\ doc' = IF pc' = "goto" THEN Requested ELSE NoDoc
    /\ UNCHANGED <<homeAssistantUrl, isAddOn, currentUrl, scripts, nextId>>
    /\ UNCHANGED <<authStorage, authGiven, scriptArgs>>
    /\ UNCHANGED <<detVars, restVars>>

\* slip: the one-shot script is removed as soon as it is registered,
\* before the load it was registered for
HookRegistered_RemoveBeforeLoad ==
    /\ pc = "register"
    /\ scripts' = scripts
    /\ call' = [call EXCEPT !.evaluateId = NoId]
    /\ nextId' = nextId + 1
    /\ log' = log \o <<"registered", "removeScriptToEvaluateOnNewDocument",
                        "goto">>
    /\ gotoUrls' = Append(gotoUrls, call.pageUrl)
    /\ pc' = "goto"
    /\ scriptArgs' = Append(scriptArgs, authStorage)
    /\ doc' = Requested
    /\ UNCHANGED <<homeAssistantUrl, isAddOn, currentUrl, result, ncalls>>
    /\ UNCHANGED <<authStorage, authGiven>>
    /\ UNCHANGED <<detVars, restVars>>

\* evaluateOnNewDocument resolves with the identifier; goto is issued
HookRegistered ==
    /\ pc = "register"
    /\ scripts' = scripts \cup {nextId}
    /\ call' = [call EXCEPT !.evaluateId = nextId]
    /\ nextId' = nextId + 1
    /\ log' = log \o <<"registered", "goto">>
    /\ gotoUrls' = Append(gotoUrls, call.pageUrl)
    /\ pc' = "goto"
    /\ scriptArgs' = Append(scriptArgs, authStorage)
    /\ doc' = Requested
    /\ UNCHANGED <<homeAssistantUrl, isAddOn, currentUrl, result, ncalls>>
    /\ UNCHANGED <<authStorage, authGiven>>
    /\ UNCHANGED <<detVars, restVars>>

\* goto of #firstNavigation settles: catch / !response?.ok() / return
FirstGotoSettled(outcome) ==
    /\ pc = "goto"
    /\ call.first
    /\ outcome.kind = "response" => doc.stage = "loaded"
    /\ LET remove == removeOnSettle(call.evaluateId, outcome)
           err    == gotoError(outcome, call.pageUrl)
       IN  /\ scripts' = IF remove THEN scripts \ {call.evaluateId}
                         ELSE scripts
           /\ log' = log \o <<"settled">>
                     \o (IF remove
                         THEN <<"removeScriptToEvaluateOnNewDocument">>
                         ELSE << >>)
           /\ result' = IF err.kind # "none" THEN err
                        ELSE Returned(firstWaitTime(isAddOn))
    /\ currentUrl' = IF outcome.kind = "response"
                     THEN BrowserUrl(call.pageUrl) ELSE currentUrl
    /\ call' = [call EXCEPT !.response = outcome]
    /\ pc' = "idle"
    /\ doc' = NoDoc
    /\ UNCHANGED <<homeAssistantUrl, isAddOn, nextId, gotoUrls, ncalls>>
    /\ UNCHANGED <<authStorage, authGiven, scriptArgs>>
    /\ UNCHANGED <<detVars, restVars>>

\* slip: a full load of a subsequent navigation injects auth as the first does
SubsequentNavigation_InjectAuth(pagePath, targetUrl) ==
    /\ pc = "idle"
    /\ ncalls < MaxCalls
    /\ LET fullLoad   == useFullLoad(targetUrl, currentUrl, homeAssistantUrl)
           pageUrl    == resolvePageUrl(pagePath, targetUrl, homeAssistantUrl)
           injectAuth == fullLoad /\ shouldInjectAuth(pageUrl, homeAssistantUrl)
       IN  /\ call' = [first |-> FALSE, pagePath |-> pagePath,
                       targetUrl |-> targetUrl, pageUrl |-> pageUrl,
                       injectAuth |-> injectAuth, evaluateId |-> NoId,
                       startUrl |-> currentUrl, fullLoad |-> fullLoad,
                       response |-> NoOutcome]
           /\ log' = IF injectAuth THEN <<"evaluateOnNewDocument">>
                     ELSE IF fullLoad THEN <<"goto">> ELSE <<"evaluate">>
           /\ gotoUrls' = IF fullLoad /\ ~injectAuth THEN <<pageUrl>>
                          ELSE << >>
           /\ pc' = IF injectAuth THEN "register"
                    ELSE IF fullLoad THEN "goto" ELSE "evaluate"
    /\ result' = NoResult
    /\ ncalls' = ncalls + 1
    /\ doc' = IF pc' = "goto" THEN Requested ELSE NoDoc
    /\ UNCHANGED <<homeAssistantUrl, isAddOn, currentUrl, scripts, nextId>>
    /\ UNCHANGED <<authStorage, authGiven, scriptArgs>>
    /\ UNCHANGED <<detVars, restVars>>

\* call(pagePath, false, targetUrl) up to its first await
SubsequentNavigation(pagePath, targetUrl) ==
    /\ pc = "idle"
    /\ ncalls < MaxCalls
    /\ LET fullLoad == useFullLoad(targetUrl, currentUrl, homeAssistantUrl)
       IN  /\ call' = [first |-> FALSE, pagePath |-> pagePath,
                       targetUrl |-> targetUrl,
                       pageUrl |-> IF fullLoad
                                   THEN resolvePageUrl(pagePath, targetUrl,
                                                       homeAssistantUrl)
                                   ELSE ResolveURL(pagePath, homeAssistantUrl),
                       injectAuth |-> FALSE, evaluateId |-> NoId,
                       startUrl |-> currentUrl, fullLoad |-> fullLoad,
                       response |-> NoOutcome]
           /\ log' = IF fullLoad THEN <<"goto">> ELSE <<"evaluate">>
           /\ gotoUrls' = IF fullLoad
                          THEN <<resolvePageUrl(pagePath, targetUrl,
                                                homeAssistantUrl)>>
                          ELSE << >>
           /\ pc' = IF fullLoad THEN "goto" ELSE "evaluate"
    /\ result' = NoResult
    /\ ncalls' = ncalls + 1
    /\ doc' = IF pc' = "goto" THEN Requested ELSE NoDoc
    /\ UNCHANGED <<homeAssistantUrl, isAddOn, currentUrl, scripts, nextId>>
    /\ UNCHANGED <<authStorage, authGiven, scriptArgs>>
    /\ UNCHANGED <<detVars, restVars>>

\* goto of #subsequentNavigation settles
SubsequentGotoSettled(outcome) ==
    /\ pc = "goto"
    /\ ~call.first
    /\ outcome.kind = "response" => doc.stage = "loaded"
    /\ LET err == gotoError(outcome, call.pageUrl)
       IN  result' = IF err.kind # "none" THEN err
                     ELSE Returned(subsequentWaitTime(isAddOn))
    /\ log' = log \o <<"settled">>
    /\ currentUrl' = IF outcome.kind = "response"
                     THEN BrowserUrl(call.pageUrl) ELSE currentUrl
    /\ call' = [call EXCEPT !.response = outcome]
    /\ pc' = "idle"
    /\ doc' = NoDoc
    /\ UNCHANGED <<homeAssistantUrl, isAddOn, scripts, nextId, gotoUrls,
                   ncalls>>
    /\ UNCHANGED <<authStorage, authGiven, scriptArgs>>
    /\ UNCHANGED <<detVars, restVars>>

\* the in-page script of #subsequentNavigation has run: history.replaceState
\* to pagePath, then the 'location-changed' event
ClientSideNavigated ==
    /\ pc = "evaluate"
    /\ currentUrl' = ResolveURL(call.pagePath, currentUrl)
    /\ log' = log \o <<"replaceState", "location-changed">>
    /\ result' = Returned(subsequentWaitTime(isAddOn))
    /\ pc' = "idle"
    /\ UNCHANGED <<homeAssistantUrl, isAddOn, scripts, nextId, call, gotoUrls,
                   ncalls>>
    /\ UNCHANGED authVars
    /\ UNCHANGED <<detVars, restVars>>

\* the load has created the new document: every registered script runs in
\* it, in order of registration, before any script of the page
DocumentCreated(before) ==
    /\ pc = "goto"
    /\ doc.stage = "requested"
    /\ doc' = [stage |-> "created",
               storage |-> RunScripts(before, scripts, scriptArgs),
               seen |-> {}]
    /\ UNCHANGED <<homeAssistantUrl, isAddOn, currentUrl, scripts, nextId, pc,
                   call, log, gotoUrls, result, ncalls>>
    /\ UNCHANGED <<authStorage, authGiven, scriptArgs>>
    /\ UNCHANGED <<detVars, restVars>>

\* the scripts of the page have run, reading the document's localStorage
PageScriptsRun ==
    /\ pc = "goto"
    /\ doc.stage = "created"
    /\ doc' = [doc EXCEPT !.stage = "loaded", !.seen = doc.storage]
    /\ UNCHANGED <<homeAssistantUrl, isAddOn, currentUrl, scripts, nextId, pc,
                   call, log, gotoUrls, result, ncalls>>
    /\ UNCHANGED <<authStorage, authGiven, scriptArgs>>
    /\ UNCHANGED <<detVars, restVars>>

Next ==
    \/ \E pagePath \in PagePaths, targetUrl \in TargetUrls :
            FirstNavigation(pagePath, targetUrl)
    \/ HookRegistered
    \/ \E outcome \in GotoOutcomes : FirstGotoSettled(outcome)
    \/ \E pagePath \in PagePaths, targetUrl \in TargetUrls :
            SubsequentNavigation(pagePath, targetUrl)
    \/ \E outcome \in GotoOutcomes : SubsequentGotoSettled(outcome)
    \/ ClientSideNavigated
    \/ \E before \in StoredBefore : DocumentCreated(before)
    \/ PageScriptsRun

Spec == Init /\ [][Next]_vars

\* one configured base URL, any mapping handed to the constructor
AuthInit ==
    /\ authStorage \in AuthStorages
    /\ authGiven = authStorage
    /\ scriptArgs = << >>
    /\ doc = NoDoc
    /\ homeAssistantUrl = Http \o Sep \o HostHA
    /\ isAddOn \in BOOLEAN
    /\ currentUrl = AboutBlank
    /\ scripts = {}
    /\ nextId = 1
    /\ pc = "idle"
    /\ call = NoCall
    /\ log = << >>
    /\ gotoUrls = << >>
    /\ result = NoResult
    /\ ncalls = 0
    /\ DetectorsIdle
    /\ RestIdle

AuthSpec == AuthInit /\ [][Next]_vars

\* ------------------------------------------------------------------------
\* Observations on the last call
\* ------------------------------------------------------------------------

\* number of occurrences of the page operation op in the log
Count(op) == Cardinality({i \in 1..Len(log) : log[i] = op})

\* position of the first occurrence of op in the log, 0 when absent
Pos(op) ==
    IF Count(op) = 0 THEN 0
    ELSE CHOOSE i \in 1..Len(log) :
            /\ log[i] = op
            /\ \A j \in 1..Len(log) : log[j] = op => i <= j

Done == pc = "idle" /\ ncalls > 0

SameOrigin(a, b) == Origin(a) = Origin(b)

Register == "evaluateOnNewDocument"

Remove == "removeScriptToEvaluateOnNewDocument"

\* ------------------------------------------------------------------------
\* Claims
\* ------------------------------------------------------------------------

\* C1: a finished first navigation with no explicit URL, whose resolved
\* target is on the configured origin (default ports normalised), has
\* registered the auth-injection hook exactly once.
C1_InjectsOnceOnConfiguredOrigin ==
    (/\ Done
     /\ call.first
     /\ call.targetUrl = NoUrl
     /\ SameOrigin(call.pageUrl, homeAssistantUrl))
        => Count(Register) = 1

\* C2: a first navigation whose resolved URL is on another origin than the
\* configured one never registers the auth-injection hook.
C2_NeverInjectsOnOtherOrigin ==
    (/\ call.first
     /\ ncalls > 0
     /\ ~SameOrigin(call.pageUrl, homeAssistantUrl))
        => Count(Register) = 0

C4_RegisterLoadRemoveOrder ==
    /\ (call.injectAuth /\ Count("goto") > 0)
            => (Pos("registered") > 0 /\ Pos("registered") < Pos("goto"))
    /\ Count(Remove) > 0
            => (/\ Pos("settled") > 0
                /\ Pos("goto") < Pos("settled")
                /\ Pos("settled") < Pos(Remove))

C4_Witness ==
    /\ Done
    /\ call.first
    /\ call.injectAuth
    /\ log = <<Register, "registered", "goto", "settled", Remove>>
    /\ ResponseOk(call.response)

\* C5: a finished subsequent navigation has done no full page load and one
\* history replacement plus one 'location-changed' event when no explicit
\* URL was given and the document it started on is on the configured origin;
\* otherwise it has done one full page load and no client-side transition.
C5_ClientSideIffOnConfiguredOrigin ==
    (Done /\ ~call.first)
        => IF /\ call.targetUrl = NoUrl
              /\ SameOrigin(call.startUrl, homeAssistantUrl)
           THEN /\ Count("goto") = 0
                /\ Count("replaceState") = 1
                /\ Count("location-changed") = 1
           ELSE /\ Count("goto") = 1
                /\ Count("evaluate") = 0
                /\ Count("replaceState") = 0

\* C6: a first navigation issues exactly one full page load, to the explicit
\* URL if given and otherwise to the path on the configured base, and never a
\* client-side transition, whatever document the session is showing.
C6_FirstNavigationOneFullLoad ==
    call.first
        => /\ Count("evaluate") = 0
           /\ Count("replaceState") = 0
           /\ Count("location-changed") = 0
           /\ Len(gotoUrls) = Count("goto")
           /\ Done
                => /\ Len(gotoUrls) = 1
                   /\ IF call.targetUrl # NoUrl
                      THEN gotoUrls[1] = call.targetUrl
                      ELSE /\ SameOrigin(gotoUrls[1], homeAssistantUrl)
                           /\ ParseURL(gotoUrls[1]).path = call.pagePath

C6_Witness ==
    /\ Done
    /\ call.first
    /\ call.targetUrl # NoUrl
    /\ SameOrigin(call.startUrl, homeAssistantUrl)
    /\ StartsWith(call.startUrl, homeAssistantUrl)
    /\ Len(gotoUrls) = 1

\* C7: a full page load that threw or returned no response raises
\* CannotOpenPageError with status 0, one whose response is not ok raises it
\* with the response's status, both with the resolved URL; an ok response
\* never raises.
C7_NavigationFailureStatus ==
    (Done /\ Count("goto") = 1)
        => LET o == call.response
           IN  /\ o.kind \in {"throw", "null"}
                    => /\ result.kind = "CannotOpenPageError"
                       /\ result.status = 0
                       /\ result.url = gotoUrls[1]
               /\ (o.kind = "response" /\ o.status \notin 200..299)
                    => /\ result.kind = "CannotOpenPageError"
                       /\ result.status = o.status
                       /\ result.url = gotoUrls[1]
               /\ (o.kind = "response" /\ o.status \in 200..299)
                    => result.kind = "ok"

C7_Witness ==
    /\ Done
    /\ ~call.first
    /\ call.response.kind = "response"
    /\ call.response.status = 404
    /\ result.kind = "CannotOpenPageError"
    /\ result.status = 404

\* C8: a subsequent navigation never registers the auth-injection hook,
\* neither with an explicit URL, nor on a full load, nor client-side.
C8_SubsequentNeverInjects ==
    (ncalls > 0 /\ ~call.first)
        => /\ Count(Register) = 0
           /\ Count("registered") = 0
           /\ call.evaluateId = NoId

C8_Witness ==
    /\ Done
    /\ ~call.first
    /\ call.fullLoad
    /\ call.targetUrl = NoUrl
    /\ SameOrigin(call.pageUrl, homeAssistantUrl)
    /\ result.kind = "ok"

\* C9: whenever an explicit full URL is given (Generic Mode) no auth hook
\* is registered, for every value of that URL.
C9_GenericModeNeverInjects ==
    (ncalls > 0 /\ call.targetUrl # NoUrl) => Count(Register) = 0

\* C10: the wait a successful call returns is the default wait, plus the
\* cold-start penalty exactly when the call is a first navigation and the
\* add-on flag is set.
C10_RecommendedWait ==
    (Done /\ result.kind = "ok")
        => result.waitTime =
                IF call.first /\ isAddOn
                THEN DEFAULT_WAIT_TIME + COLD_START_EXTRA_WAIT
                ELSE DEFAULT_WAIT_TIME

C10_Witness ==
    /\ Done
    /\ ncalls = MaxCalls
    /\ ~call.first
    /\ isAddOn
    /\ result.kind = "ok"
    /\ result.waitTime = DEFAULT_WAIT_TIME

\* ========================================================================
\* Readiness detectors
\*
\* One detector call per behaviour.  Date.now() is the clock `now`; it
\* advances in steps of Tick while the call is suspended at an await.  An
\* in-page evaluation or a channel command settles after 0..Tick, a
\* setTimeout(100) sleep fires after 100..100+Tick.  The in-page evaluation of
\* WaitForPageStable and WaitForLoadingComplete may reject; creating,
\* enabling and detaching the CDP session may reject; waitForFunction
\* rejects only by its timeout.
\* ========================================================================

\* granularity of the clock, and the most an await is late, in milliseconds
Tick == 50

\* the configured timeouts tried are 0, Tick, ..., MaxTimeoutTicks * Tick
MaxTimeoutTicks == 8

\* setTimeout(resolve, 100) in the three polling loops
POLL_SLEEP == 100

\* const requiredStableChecks = 3
requiredStableChecks == 3

\* waitForFunction(..., { timeout: 3000, polling: 100 })
PAGE_LOAD_TIMEOUT == 3000

PAGE_LOAD_POLLING == 100

Timeouts == {k * Tick : k \in 0..MaxTimeoutTicks}

\* Date.now() when a call starts
Epochs == {1000}

Running(w) == w.pc \notin {"idle", "done"}

NoDetectorCalled ==
    /\ wpl.pc = "idle"
    /\ wps.pc = "idle"
    /\ wni.pc = "idle"
    /\ wlc.pc = "idle"

\* shortest and longest time the await at position p takes
MinAwait(p) ==
    IF p = "sleep" THEN POLL_SLEEP
    ELSE IF p = "poll" THEN PAGE_LOAD_POLLING
    ELSE 0

MaxAwait(p) == MinAwait(p) + Tick

\* the await of w may settle now
Settles(w) == now - w.since >= MinAwait(w.pc)

NoReport == [kind |-> "none", elapsed |-> 0]

\* slip: the loop still starts a poll when the timeout has just elapsed
loopContinues_Inclusive(t, start, timeout) == t - start <= timeout

\* slip: the start time is not subtracted
loopContinues_Absolute(t, start, timeout) == t < timeout

\* while (Date.now() - start < this.#timeout)
loopContinues(t, start, timeout) == t - start < timeout

\* ------------------------------------------------------------------------
\* WaitForPageStable
\* ------------------------------------------------------------------------

Heights == {0, 600}

ContentSizes == {0, 40}

\* StabilityMetrics the in-page script returns
Metrics == [height : Heights, contentHash : ContentSizes]

\* slip: only the height is compared
stableChecksAfter_HeightOnly(metrics, lastHeight, lastContent, stableChecks) ==
    IF metrics.height = lastHeight THEN stableChecks + 1 ELSE 0

\* stableChecks after one sample: stableChecks++ or stableChecks = 0
stableChecksAfter(metrics, lastHeight, lastContent, stableChecks) ==
    IF metrics.height = lastHeight /\ metrics.contentHash = lastContent
    THEN stableChecks + 1
    ELSE 0

\* the loop condition of WaitForPageStable.call at time t, and what follows
stableLoopHead(w, t) ==
    IF loopContinues(t, w.start, w.timeout)
    THEN [w EXCEPT !.pc = "evaluate", !.since = t, !.pollAt = t,
                   !.polls = w.polls + 1]
    ELSE [w EXCEPT !.pc = "done",
                   !.result = [kind |-> "timeout", elapsed |-> t - w.start]]

\* the last three of the samples taken, oldest first
Recent(samples, m) ==
    LET all == Append(samples, m)
    IN  IF Len(all) <= 3 THEN all ELSE SubSeq(all, Len(all) - 2, Len(all))

\* new WaitForPageStable(page, timeout).call() up to its first await
StableCall(timeout) ==
    /\ NoDetectorCalled
    /\ wps' = stableLoopHead(
                [pc |-> "idle", start |-> now, timeout |-> timeout,
                 since |-> now, pollAt |-> now, polls |-> 0,
                 lastHeight |-> 0, lastContent |-> 0, stableChecks |-> 0,
                 nsamples |-> 0, recent |-> << >>, changed |-> FALSE,
                 result |-> NoReport], now)
    /\ UNCHANGED <<now, wpl, wni, wlc, navVars, restVars>>

\* page.evaluate resolved with the metrics
StableEvaluated(metrics) ==
    /\ wps.pc = "evaluate"
    /\ Settles(wps)
    /\ LET checks == stableChecksAfter(metrics, wps.lastHeight,
                                       wps.lastContent, wps.stableChecks)
           seen   == [wps EXCEPT
                        !.nsamples = wps.nsamples + 1,
                        !.recent = Recent(wps.recent, metrics),
                        !.changed = /\ wps.nsamples > 0
                                    /\ wps.recent[Len(wps.recent)] # metrics,
                        !.stableChecks = checks]
       IN  wps' = IF checks >= requiredStableChecks
                  THEN [seen EXCEPT
                          !.pc = "done",
                          !.result = [kind |-> "stable",
                                      elapsed |-> now - wps.start]]
                  ELSE [seen EXCEPT
                          !.pc = "sleep", !.since = now,
                          !.lastHeight = metrics.height,
                          !.lastContent = metrics.contentHash]
    /\ UNCHANGED <<now, wpl, wni, wlc, navVars, restVars>>

\* page.evaluate rejected: nothing in call() catches it
StableEvaluateRejected ==
    /\ wps.pc = "evaluate"
    /\ Settles(wps)
    /\ wps' = [wps EXCEPT !.pc = "done",
                          !.result = [kind |-> "raised",
                                      elapsed |-> now - wps.start]]
    /\ UNCHANGED <<now, wpl, wni, wlc, navVars, restVars>>

\* the 100 ms sleep is over: back to the loop condition
StableSlept ==
    /\ wps.pc = "sleep"
    /\ Settles(wps)
    /\ wps' = stableLoopHead(wps, now)
    /\ UNCHANGED <<now, wpl, wni, wlc, navVars, restVars>>

\* ------------------------------------------------------------------------
\* WaitForLoadingComplete
\* ------------------------------------------------------------------------

\* Shadow roots of the page: 1 is the shadow root of <home-assistant>, the
\* others hang below it as the parent map says (a chain or a fan).
ShadowRoots == {1, 2, 3}

ShadowShapes == {[n \in ShadowRoots |-> n - 1],
                 [n \in ShadowRoots |-> IF n = 1 THEN 0 ELSE 1]}

\* What a shadow root holds of the elements matching loadingSelectors: none,
\* or one with the given computed style.
NoMarker == [present |-> FALSE, display |-> "none", visibility |-> "hidden"]

Markers ==
    {NoMarker,
     [present |-> TRUE, display |-> "block", visibility |-> "visible"],
     [present |-> TRUE, display |-> "none", visibility |-> "visible"],
     [present |-> TRUE, display |-> "block", visibility |-> "hidden"]}

\* <home-assistant> absent, present without shadow root, or with one
LoadingDoms ==
    [ha : {"absent", "noShadow"}, parent : {[n \in ShadowRoots |-> n - 1]},
     marker : {[n \in ShadowRoots |-> NoMarker]}]
        \cup [ha : {"shadow"}, parent : ShadowShapes,
              marker : [ShadowRoots -> Markers]]

\* style.display !== 'none' && style.visibility !== 'hidden'
countsAsVisible(m) == m.display # "none" /\ m.visibility # "hidden"

\* checkShadowRoot(root): a visible indicator in this root or, recursively,
\* in the shadow root of one of its elements
RECURSIVE checkShadowRoot(_, _)
checkShadowRoot(dom, root) ==
    \/ dom.marker[root].present /\ countsAsVisible(dom.marker[root])
    \/ \E c \in ShadowRoots :
            dom.parent[c] = root /\ checkShadowRoot(dom, c)

\* slip: nested shadow roots are not searched
hasLoadingIndicators_RootOnly(dom) ==
    /\ dom.ha = "shadow"
    /\ dom.marker[1].present
    /\ countsAsVisible(dom.marker[1])

\* the in-page script of WaitForLoadingComplete.call
hasLoadingIndicators(dom) ==
    IF dom.ha # "shadow" THEN FALSE ELSE checkShadowRoot(dom, 1)

\* the loop condition of WaitForLoadingComplete.call at time t
loadingLoopHead(w, t) ==
    IF loopContinues(t, w.start, w.timeout)
    THEN [w EXCEPT !.pc = "evaluate", !.since = t, !.pollAt = t,
                   !.polls = w.polls + 1]
    ELSE [w EXCEPT !.pc = "done",
                   !.result = [kind |-> "timeout", elapsed |-> t - w.start]]

\* a marker that is displayed and not hidden, in any shadow root of the page
AnyVisibleMarker(dom) ==
    /\ dom.ha = "shadow"
    /\ \E n \in ShadowRoots :
            /\ dom.marker[n].present
            /\ dom.marker[n].display # "none"
            /\ dom.marker[n].visibility # "hidden"

\* new WaitForLoadingComplete(page, timeout).call() up to its first await
LoadingCall(timeout) ==
    /\ NoDetectorCalled
    /\ wlc' = loadingLoopHead(
                [pc |-> "idle", start |-> now, timeout |-> timeout,
                 since |-> now, pollAt |-> now, polls |-> 0,
                 dom |-> [ha |-> "absent",
                          parent |-> [n \in ShadowRoots |-> n - 1],
                          marker |-> [n \in ShadowRoots |-> NoMarker]],
                 allBusy |-> TRUE, result |-> NoReport], now)
    /\ UNCHANGED <<now, wpl, wps, wni, navVars, restVars>>

\* page.evaluate resolved, the page being dom when the script ran
LoadingEvaluated(dom) ==
    /\ wlc.pc = "evaluate"
    /\ Settles(wlc)
    /\ LET seen == [wlc EXCEPT
                      !.dom = dom,
                      !.allBusy = /\ wlc.allBusy
                                  /\ wlc.polls > 1 => AnyVisibleMarker(wlc.dom)]
       IN  wlc' = IF ~hasLoadingIndicators(dom)
                  THEN [seen EXCEPT
                          !.pc = "done",
                          !.result = [kind |-> "cleared",
                                      elapsed |-> now - wlc.start]]
                  ELSE [seen EXCEPT !.pc = "sleep", !.since = now]
    /\ UNCHANGED <<now, wpl, wps, wni, navVars, restVars>>

\* page.evaluate rejected: nothing in call() catches it
LoadingEvaluateRejected ==
    /\ wlc.pc = "evaluate"
    /\ Settles(wlc)
    /\ wlc' = [wlc EXCEPT !.pc = "done",
                          !.result = [kind |-> "raised",
                                      elapsed |-> now - wlc.start]]
    /\ UNCHANGED <<now, wpl, wps, wni, navVars, restVars>>

\* the 100 ms sleep is over: back to the loop condition
LoadingSlept ==
    /\ wlc.pc = "sleep"
    /\ Settles(wlc)
    /\ wlc' = loadingLoopHead(wlc, now)
    /\ UNCHANGED <<now, wpl, wps, wni, navVars, restVars>>

\* ------------------------------------------------------------------------
\* WaitForNetworkIdle
\* ------------------------------------------------------------------------

\* requests the page has in flight at most
MaxRequests == 2

\* configured quiet windows (idleTime)
IdleTimes == {2 * Tick, 4 * Tick}

Max(a, b) == IF a >= b THEN a ELSE b

\* onRequestWillBeSent
onRequestWillBeSent(w, t) ==
    [w EXCEPT !.pendingRequests = w.pendingRequests + 1,
              !.lastActivityTime = t]

\* onLoadingFinished
onLoadingFinished(w, t) ==
    [w EXCEPT !.pendingRequests = Max(0, w.pendingRequests - 1),
              !.lastActivityTime = t]

\* onLoadingFailed
onLoadingFailed(w, t) ==
    [w EXCEPT !.pendingRequests = Max(0, w.pendingRequests - 1),
              !.lastActivityTime = t]

\* slip: the counter alone decides, the quiet window is ignored
isIdle_NoQuietWindow(pendingRequests, lastActivityTime, t, idleTime) ==
    pendingRequests = 0

\* slip: the quiet window alone decides, requests in flight are ignored
isIdle_QuietOnly(pendingRequests, lastActivityTime, t, idleTime) ==
    t - lastActivityTime >= idleTime

\* const isIdle = pendingRequests === 0 && timeSinceLastActivity >= idleTime
isIdle(pendingRequests, lastActivityTime, t, idleTime) ==
    /\ pendingRequests = 0
    /\ t - lastActivityTime >= idleTime

\* slip: the catch block rethrows
degraded_Rethrow(w, t) ==
    [w EXCEPT !.pc = "done",
              !.result = [kind |-> "raised", elapsed |-> t - w.start]]

\* catch (err) { return Date.now() - start }
degraded(w, t) ==
    [w EXCEPT !.pc = "done",
              !.result = [kind |-> "degraded", elapsed |-> t - w.start]]

\* slip: the idle branch returns without detaching
idleExit_NoDetach(w, t) ==
    [w EXCEPT !.pc = "done", !.pollAt = t, !.polls = w.polls + 1,
              !.idleReported = TRUE, !.actualWait = t - w.start,
              !.result = [kind |-> "idle", elapsed |-> t - w.start]]

\* if (isIdle): actualWait is taken, then client.detach() is awaited
idleExit(w, t) ==
    [w EXCEPT !.pc = "detachIdle", !.since = t, !.pollAt = t,
              !.polls = w.polls + 1, !.idleReported = TRUE,
              !.actualWait = t - w.start,
              !.detachCalls = w.detachCalls + 1]

\* the loop condition of WaitForNetworkIdle.call at time t, and what follows
netLoopHead(w, t) ==
    IF loopContinues(t, w.start, w.timeout)
    THEN LET v == [w EXCEPT !.allPending = w.allPending
                                /\ (w.polls = 0 \/ w.pendingRequests > 0)]
         IN  IF isIdle(w.pendingRequests, w.lastActivityTime, t, w.idleTime)
             THEN idleExit(v, t)
             ELSE [v EXCEPT !.pc = "sleep", !.since = t, !.pollAt = t,
                            !.polls = w.polls + 1]
    ELSE [w EXCEPT !.pc = "detachTimeout", !.since = t,
                   !.detachCalls = w.detachCalls + 1]

\* new WaitForNetworkIdle(page, timeout, idleTime).call() up to its first
\* await, the page having inflight requests in flight
NetIdleCall(timeout, idleTime, inflight) ==
    /\ NoDetectorCalled
    /\ wni' = [pc |-> "create", start |-> now, timeout |-> timeout,
               idleTime |-> idleTime, since |-> now, pollAt |-> now,
               polls |-> 0, pendingRequests |-> 0, lastActivityTime |-> now,
               channel |-> "none", detachCalls |-> 0, listening |-> FALSE,
               netUnseen |-> inflight, netSeen |-> 0, lastEventAt |-> now,
               attachedAt |-> 0,
               allPending |-> TRUE, idleReported |-> FALSE,
               actualWait |-> 0, failed |-> "none", result |-> NoReport]
    /\ UNCHANGED <<now, wpl, wps, wlc, navVars, restVars>>

\* createCDPSession resolved: Network.enable is sent
NetIdleCreated ==
    /\ wni.pc = "create"
    /\ Settles(wni)
    /\ wni' = [wni EXCEPT !.pc = "enable", !.since = now,
                          !.channel = "attached"]
    /\ UNCHANGED <<now, wpl, wps, wlc, navVars, restVars>>

\* createCDPSession rejected
NetIdleCreateRejected ==
    /\ wni.pc = "create"
    /\ Settles(wni)
    /\ wni' = degraded([wni EXCEPT !.failed = "create"], now)
    /\ UNCHANGED <<now, wpl, wps, wlc, navVars, restVars>>

\* Network.enable resolved: counters set, listeners attached, first check
NetIdleEnabled ==
    /\ wni.pc = "enable"
    /\ Settles(wni)
    /\ wni' = netLoopHead([wni EXCEPT !.pendingRequests = 0,
                                      !.lastActivityTime = now,
                                      !.lastEventAt = now,
                                      !.attachedAt = now,
                                      !.listening = TRUE], now)
    /\ UNCHANGED <<now, wpl, wps, wlc, navVars, restVars>>

\* Network.enable rejected
NetIdleEnableRejected ==
    /\ wni.pc = "enable"
    /\ Settles(wni)
    /\ wni' = degraded([wni EXCEPT !.failed = "enable"], now)
    /\ UNCHANGED <<now, wpl, wps, wlc, navVars, restVars>>

\* the 100 ms sleep is over: back to the loop condition
NetIdleSlept ==
    /\ wni.pc = "sleep"
    /\ Settles(wni)
    /\ wni' = netLoopHead(wni, now)
    /\ UNCHANGED <<now, wpl, wps, wlc, navVars, restVars>>

\* client.detach() resolved: return actualWait
NetIdleDetached ==
    /\ wni.pc \in {"detachIdle", "detachTimeout"}
    /\ Settles(wni)
    /\ wni' = [wni EXCEPT
                 !.pc = "done", !.channel = "detached", !.listening = FALSE,
                 !.result = IF wni.pc = "detachIdle"
                            THEN [kind |-> "idle", elapsed |-> wni.actualWait]
                            ELSE [kind |-> "timeout",
                                  elapsed |-> now - wni.start]]
    /\ UNCHANGED <<now, wpl, wps, wlc, navVars, restVars>>

\* client.detach() rejected
NetIdleDetachRejected ==
    /\ wni.pc \in {"detachIdle", "detachTimeout"}
    /\ Settles(wni)
    /\ wni' = degraded([wni EXCEPT !.failed = "detach"], now)
    /\ UNCHANGED <<now, wpl, wps, wlc, navVars, restVars>>

\* the listeners run while call() is suspended
Listening ==
    /\ wni.pc \in {"sleep", "detachIdle", "detachTimeout"}
    /\ wni.listening

\* Network.requestWillBeSent: the page starts a request
NetRequestWillBeSent ==
    /\ Listening
    /\ wni.netSeen + wni.netUnseen < MaxRequests
    /\ wni' = [onRequestWillBeSent(wni, now) EXCEPT
                 !.netSeen = wni.netSeen + 1, !.lastEventAt = now]
    /\ UNCHANGED <<now, wpl, wps, wlc, navVars, restVars>>

\* Network.loadingFinished, of a request whose start was seen or not
NetLoadingFinished(seen) ==
    /\ Listening
    /\ IF seen THEN wni.netSeen > 0 ELSE wni.netUnseen > 0
    /\ wni' = [onLoadingFinished(wni, now) EXCEPT
                 !.netSeen = IF seen THEN wni.netSeen - 1 ELSE wni.netSeen,
                 !.netUnseen = IF seen THEN wni.netUnseen
                               ELSE wni.netUnseen - 1,
                 !.lastEventAt = now]
    /\ UNCHANGED <<now, wpl, wps, wlc, navVars, restVars>>

\* Network.loadingFailed, of a request whose start was seen or not
NetLoadingFailed(seen) ==
    /\ Listening
    /\ IF seen THEN wni.netSeen > 0 ELSE wni.netUnseen > 0
    /\ wni' = [onLoadingFailed(wni, now) EXCEPT
                 !.netSeen = IF seen THEN wni.netSeen - 1 ELSE wni.netSeen,
                 !.netUnseen = IF seen THEN wni.netUnseen
                               ELSE wni.netUnseen - 1,
                 !.lastEventAt = now]
    /\ UNCHANGED <<now, wpl, wps, wlc, navVars, restVars>>

\* ------------------------------------------------------------------------
\* WaitForPageLoad
\* ------------------------------------------------------------------------

\* What the predicate of waitForFunction looks at: <home-assistant>,
\* <home-assistant-main> in its shadow root, <partial-panel-resolver> in that
\* one's shadow root with its _loading flag, and the resolver's first child
\* with its _loading flag (which the panel may not have at all).
PageDoms ==
    [ha : BOOLEAN, main : BOOLEAN,
     resolver : {"absent", "loading", "idle"},
     panel : {"absent", "noFlag", "loading", "loaded"}]

\* slip: the resolver's own _loading flag is not looked at
pageLoaded_IgnoreResolverFlag(dom) ==
    /\ dom.ha
    /\ dom.main
    /\ dom.resolver # "absent"
    /\ dom.panel \in {"noFlag", "loaded"}

\* the predicate handed to waitForFunction
pageLoaded(dom) ==
    IF ~dom.ha THEN FALSE
    ELSE IF ~dom.main THEN FALSE
    ELSE IF dom.resolver = "absent" \/ dom.resolver = "loading" THEN FALSE
    ELSE IF dom.panel = "absent" THEN FALSE
    ELSE dom.panel = "noFlag" \/ dom.panel # "loading"

\* the anchors are there and no loading flag is truthy
PageReady(dom) ==
    /\ dom.ha
    /\ dom.main
    /\ dom.resolver = "idle"
    /\ dom.panel \in {"noFlag", "loaded"}

\* new WaitForPageLoad(page).call(): waitForFunction starts polling
PageLoadCall ==
    /\ NoDetectorCalled
    /\ wpl' = [pc |-> "first", start |-> now, since |-> now, polls |-> 0,
               dom |-> [ha |-> FALSE, main |-> FALSE, resolver |-> "absent",
                        panel |-> "absent"],
               allNotReady |-> TRUE, result |-> NoReport]
    /\ UNCHANGED <<now, wps, wni, wlc, navVars, restVars>>

\* waitForFunction runs the predicate, the page being dom: it resolves when
\* the predicate holds and polls again 100 ms later when it does not
PageLoadPolled(dom) ==
    /\ wpl.pc \in {"first", "poll"}
    /\ Settles(wpl)
    /\ now - wpl.start < PAGE_LOAD_TIMEOUT
    /\ LET seen == [wpl EXCEPT
                      !.polls = wpl.polls + 1,
                      !.dom = dom,
                      !.allNotReady = /\ wpl.allNotReady
                                      /\ wpl.polls > 0 => ~PageReady(wpl.dom)]
       IN  wpl' = IF pageLoaded(dom)
                  THEN [seen EXCEPT
                          !.pc = "done",
                          !.result = [kind |-> "ready",
                                      elapsed |-> now - wpl.start]]
                  ELSE [seen EXCEPT !.pc = "poll", !.since = now]
    /\ UNCHANGED <<now, wps, wni, wlc, navVars, restVars>>

\* waitForFunction rejects with its TimeoutError: caught and logged
PageLoadTimedOut ==
    /\ wpl.pc \in {"first", "poll"}
    /\ now - wpl.start >= PAGE_LOAD_TIMEOUT
    /\ wpl' = [wpl EXCEPT !.pc = "done",
                          !.result = [kind |-> "timeout",
                                      elapsed |-> now - wpl.start]]
    /\ UNCHANGED <<now, wps, wni, wlc, navVars, restVars>>

\* ------------------------------------------------------------------------
\* The clock
\* ------------------------------------------------------------------------

\* latest time at which the running call's await has settled
Deadline ==
    IF Running(wps) THEN wps.since + MaxAwait(wps.pc)
    ELSE IF Running(wlc) THEN wlc.since + MaxAwait(wlc.pc)
    ELSE IF Running(wni) THEN wni.since + MaxAwait(wni.pc)
    ELSE IF Running(wpl) /\ now - wpl.start < PAGE_LOAD_TIMEOUT
         THEN wpl.since + MaxAwait(wpl.pc)
    ELSE now

\* Date.now() advances while a call is suspended
TimePasses ==
    /\ now + Tick <= Deadline
    /\ now' = now + Tick
    /\ UNCHANGED <<wpl, wps, wni, wlc, navVars, restVars>>

DetectorInit ==
    /\ now \in Epochs
    /\ wpl = DetIdle
    /\ wps = DetIdle
    /\ wni = DetIdle
    /\ wlc = DetIdle
    /\ authStorage = {}
    /\ authGiven = {}
    /\ scriptArgs = << >>
    /\ doc = NoDoc
    /\ homeAssistantUrl \in {Http \o Sep \o HostHA}
    /\ isAddOn = FALSE
    /\ currentUrl = Http \o Sep \o HostHA \o PathA
    /\ scripts = {}
    /\ nextId = 1
    /\ pc = "idle"
    /\ call = NoCall
    /\ log = << >>
    /\ gotoUrls = << >>
    /\ result = NoResult
    /\ ncalls = 0
    /\ RestIdle

NetIdleNext ==
    \/ \E timeout \in Timeouts, idleTime \in IdleTimes,
          inflight \in 0..MaxRequests :
            NetIdleCall(timeout, idleTime, inflight)
    \/ NetIdleCreated
    \/ NetIdleCreateRejected
    \/ NetIdleEnabled
    \/ NetIdleEnableRejected
    \/ NetIdleSlept
    \/ NetIdleDetached
    \/ NetIdleDetachRejected
    \/ NetRequestWillBeSent
    \/ \E seen \in BOOLEAN : NetLoadingFinished(seen)
    \/ \E seen \in BOOLEAN : NetLoadingFailed(seen)

DetectorNext ==
    \/ \E timeout \in Timeouts : StableCall(timeout)
    \/ \E metrics \in Metrics : StableEvaluated(metrics)
    \/ StableEvaluateRejected
    \/ StableSlept
    \/ \E timeout \in Timeouts : LoadingCall(timeout)
    \/ \E dom \in LoadingDoms : LoadingEvaluated(dom)
    \/ LoadingEvaluateRejected
    \/ LoadingSlept
    \/ NetIdleNext
    \/ PageLoadCall
    \/ \E dom \in PageDoms : PageLoadPolled(dom)
    \/ PageLoadTimedOut
    \/ TimePasses

DetectorSpec == DetectorInit /\ [][DetectorNext]_vars

\* an await of WaitForNetworkIdle.call settles
NetIdleSettles ==
    \/ NetIdleCreated
    \/ NetIdleCreateRejected
    \/ NetIdleEnabled
    \/ NetIdleEnableRejected
    \/ NetIdleSlept
    \/ NetIdleDetached
    \/ NetIdleDetachRejected

\* WaitForNetworkIdle on an event loop where time passes and every pending
\* promise and timer settles
NetIdleFairSpec ==
    /\ DetectorInit
    /\ [][NetIdleNext \/ TimePasses]_vars
    /\ WF_vars(TimePasses)
    /\ WF_vars(NetIdleSettles)

\* ------------------------------------------------------------------------
\* Claims on the readiness detectors
\* ------------------------------------------------------------------------

\* C13: WaitForPageStable reports stable only when the last three samples
\* taken are equal in height and in content size, and a sample that differs
\* from the previous one leaves the counter of unchanged samples at 0.
C13_StableAfterThreeUnchanged ==
    /\ (wps.pc = "done" /\ wps.result.kind = "stable")
            => /\ wps.nsamples >= 3
               /\ Len(wps.recent) = 3
               /\ wps.recent[1] = wps.recent[2]
               /\ wps.recent[2] = wps.recent[3]
    /\ (wps.pc = "sleep" /\ wps.changed) => wps.stableChecks = 0

C13_Witness ==
    /\ wps.pc = "done"
    /\ wps.result.kind = "stable"
    /\ wps.nsamples > 3
    /\ wps.recent[3].height = 600
    /\ wps.recent[3].contentHash = 40

\* C18: WaitForLoadingComplete returns "cleared" at a poll exactly when no
\* marker is visible in any shadow root at that poll while one was visible at
\* every earlier poll; a hidden marker does not make it poll again, a visible
\* one at any depth does.
C18_ClearedAtFirstPollWithoutVisibleMarker ==
    /\ (wlc.pc = "done" /\ wlc.result.kind = "cleared")
            => (~AnyVisibleMarker(wlc.dom) /\ wlc.allBusy)
    /\ wlc.pc = "sleep" => (AnyVisibleMarker(wlc.dom) /\ wlc.allBusy)
    /\ (wlc.pc = "done" /\ wlc.result.kind = "timeout" /\ wlc.polls > 0)
            => (AnyVisibleMarker(wlc.dom) /\ wlc.allBusy)

C18_Witness ==
    /\ wlc.pc = "done"
    /\ wlc.result.kind = "cleared"
    /\ wlc.polls = 3
    /\ wlc.dom.ha = "shadow"
    /\ wlc.dom.parent[3] = 2
    /\ wlc.dom.marker[3].present
    /\ wlc.dom.marker[3].visibility = "hidden"
    /\ wlc.dom.marker[2].present
    /\ wlc.dom.marker[2].display = "none"

C18_WitnessNested ==
    /\ wlc.pc = "sleep"
    /\ wlc.dom.parent[3] = 2
    /\ ~wlc.dom.marker[1].present
    /\ ~wlc.dom.marker[2].present
    /\ countsAsVisible(wlc.dom.marker[3])

\* a call that has ended by returning a value
ReturnedValue(w) == w.pc = "done" /\ w.result.kind # "raised"

\* C11: none of the four detectors ever raises from call().
C11_DetectorsNeverRaise ==
    /\ wpl.pc = "done" => wpl.result.kind # "raised"
    /\ wps.pc = "done" => wps.result.kind # "raised"
    /\ wni.pc = "done" => wni.result.kind # "raised"
    /\ wlc.pc = "done" => wlc.result.kind # "raised"

\* C12 (as stated): the elapsed wait WaitForPageStable, WaitForNetworkIdle
\* and WaitForLoadingComplete return is never greater than the timeout.
C12_ElapsedWithinTimeout ==
    /\ ReturnedValue(wps) => wps.result.elapsed <= wps.timeout
    /\ ReturnedValue(wni) => wni.result.elapsed <= wni.timeout
    /\ ReturnedValue(wlc) => wlc.result.elapsed <= wlc.timeout

\* C12 (amended): every poll starts before the timeout has elapsed, so the
\* returned elapsed wait exceeds the timeout by less than the awaits of the
\* last poll round take, and on the timeout exit it is at least the timeout.
C12_ElapsedWithinOnePollOfTimeout ==
    /\ (wps.pc # "idle" /\ wps.polls > 0) => wps.pollAt - wps.start < wps.timeout
    /\ (wlc.pc # "idle" /\ wlc.polls > 0) => wlc.pollAt - wlc.start < wlc.timeout
    /\ (wni.pc # "idle" /\ wni.polls > 0) => wni.pollAt - wni.start < wni.timeout
    /\ ReturnedValue(wps)
            => /\ wps.result.elapsed = now - wps.start
               /\ wps.result.elapsed
                    < wps.timeout + MaxAwait("evaluate") + MaxAwait("sleep")
               /\ wps.result.kind = "timeout"
                    => wps.result.elapsed >= wps.timeout
    /\ ReturnedValue(wlc)
            => /\ wlc.result.elapsed = now - wlc.start
               /\ wlc.result.elapsed
                    < wlc.timeout + MaxAwait("evaluate") + MaxAwait("sleep")
               /\ wlc.result.kind = "timeout"
                    => wlc.result.elapsed >= wlc.timeout
    /\ ReturnedValue(wni)
            => /\ wni.result.elapsed <= now - wni.start
               /\ wni.polls > 0
                    => wni.result.elapsed
                         < wni.timeout + MaxAwait("sleep") + MaxAwait("detach")
               /\ wni.polls = 0
                    => wni.result.elapsed
                         <= MaxAwait("create") + MaxAwait("enable")
                              + MaxAwait("detach")
               /\ wni.result.kind = "timeout"
                    => wni.result.elapsed >= wni.timeout

C12_Witness ==
    /\ ReturnedValue(wps)
    /\ wps.result.kind = "timeout"
    /\ wps.polls > 2
    /\ wps.result.elapsed > wps.timeout

\* C14: WaitForNetworkIdle reports idle only at a moment when its in-flight
\* count is 0 and no request event has arrived for at least idleTime.
C14_IdleOnlyWhenQuiet ==
    [][(wni.pc # "idle" /\ ~wni.idleReported /\ wni'.idleReported)
            => /\ wni'.pendingRequests = 0
               /\ now' - wni'.lastEventAt >= wni'.idleTime
               /\ wni'.actualWait = now' - wni'.start]_vars

C14_Witness ==
    /\ wni.pc = "done"
    /\ wni.result.kind = "idle"
    /\ wni.lastEventAt > wni.start + Tick
    /\ wni.netUnseen = 0
    /\ wni.netSeen = 0

\* C15: WaitForNetworkIdle always terminates without raising; when its
\* in-flight count is above 0 at every check after the first (the listeners
\* are attached just before the first one) it ends by its timeout, with an
\* elapsed value of at least the timeout, and has not reported idle.
C15_TimesOutWhilePending ==
    /\ [](wni.pc = "done" => wni.result.kind # "raised")
    /\ []((wni.pc = "done" /\ wni.failed = "none" /\ wni.allPending
                /\ wni.polls > 1)
            => /\ wni.result.kind = "timeout"
               /\ ~wni.idleReported)
    /\ []((wni.pc = "done" /\ wni.result.kind = "timeout")
            => /\ wni.result.elapsed >= wni.timeout
               /\ now - wni.start >= wni.timeout)
    /\ (Running(wni) ~> wni.pc = "done")

C15_Witness ==
    /\ wni.pc = "done"
    /\ wni.result.kind = "timeout"
    /\ wni.polls > 2
    /\ wni.allPending
    /\ wni.pendingRequests = 2

\* C16: the channel WaitForNetworkIdle created is detached exactly once, and
\* before call() returns, both when idle is reported and on the timeout.
C16_DetachedOnceBeforeReturn ==
    wni.pc # "idle"
        => /\ wni.detachCalls <= 1
           /\ wni.detachCalls = 1
                => wni.pc \in {"detachIdle", "detachTimeout", "done"}
           /\ (wni.pc = "done" /\ wni.result.kind \in {"idle", "timeout"})
                => /\ wni.detachCalls = 1
                   /\ wni.channel = "detached"
                   /\ ~wni.listening
           /\ (wni.pc = "done" /\ wni.idleReported) => wni.detachCalls = 1

C16_Witness ==
    /\ wni.pc = "done"
    /\ wni.result.kind = "idle"
    /\ wni.channel = "detached"
    /\ wni.detachCalls = 1
    /\ wni.polls > 1

\* C17: when the channel cannot be created WaitForNetworkIdle returns the
\* time elapsed so far at once: no poll, no sleep, no raise.
C17_NoChannelReturnsAtOnce ==
    (wni.pc = "done" /\ wni.failed = "create")
        => /\ wni.result.kind = "degraded"
           /\ wni.result.elapsed = now - wni.start
           /\ wni.result.elapsed <= MaxAwait("create")
           /\ wni.polls = 0
           /\ wni.channel = "none"
           /\ wni.detachCalls = 0
           /\ ~wni.listening

C17_Witness ==
    /\ wni.pc = "done"
    /\ wni.failed = "create"
    /\ wni.result.kind = "degraded"
    /\ wni.result.elapsed = Tick
    /\ wni.timeout > Tick

C19_WitnessCeiling ==
    /\ wpl.pc = "done"
    /\ wpl.result.kind = "timeout"
    /\ wpl.dom.resolver = "loading"
    /\ wpl.dom.panel = "loaded"

\* ---------------------------------------------------------------------
\* resolveScreenshotTarget (shared/screenshot-target.ts)
\* ---------------------------------------------------------------------

DEFAULT_DASHBOARD_PATH == "/lovelace/0"

\* the fields of a Schedule that resolveScreenshotTarget reads
HaModes == {Undefined, Defined(TRUE), Defined(FALSE)}

DashboardPaths ==
    {Undefined, Defined(""), Defined("/lovelace/0"),
     Defined("/lovelace/kitchen"), Defined("/dashboard-energy")}

ScheduleTargetUrls ==
    {Undefined, Defined(""), Defined("https://example.com"),
     Defined("http://grafana.local:3000/d/abc")}

Schedules ==
    [ha_mode : HaModes, dashboard_path : DashboardPaths,
     target_url : ScheduleTargetUrls]

\* a ?? b
Nullish(a, b) == IF a = Undefined THEN b ELSE a[1]

\* a || b on an optional string: undefined and '' are falsy
OrElse(a, b) == IF a = Undefined \/ a[1] = "" THEN b ELSE a[1]

\* slip: generic mode keeps the dashboard path
resolveScreenshotTarget_GenericDashboardPath(s) ==
    IF Nullish(s.ha_mode, TRUE)
    THEN [path |-> OrElse(s.dashboard_path, DEFAULT_DASHBOARD_PATH),
          fullUrl |-> Undefined, isHAMode |-> TRUE]
    ELSE [path |-> OrElse(s.dashboard_path, "/"),
          fullUrl |-> s.target_url, isHAMode |-> FALSE]

\* slip: HA mode passes the schedule's target_url through
resolveScreenshotTarget_KeepsTargetUrl(s) ==
    IF Nullish(s.ha_mode, TRUE)
    THEN [path |-> OrElse(s.dashboard_path, DEFAULT_DASHBOARD_PATH),
          fullUrl |-> s.target_url, isHAMode |-> TRUE]
    ELSE [path |-> "/", fullUrl |-> s.target_url, isHAMode |-> FALSE]

resolveScreenshotTarget(s) ==
    IF Nullish(s.ha_mode, TRUE)
    THEN [path |-> OrElse(s.dashboard_path, DEFAULT_DASHBOARD_PATH),
          fullUrl |-> Undefined, isHAMode |-> TRUE]
    ELSE [path |-> "/", fullUrl |-> s.target_url, isHAMode |-> FALSE]

\* a caller resolves its schedule
ResolveTarget ==
    /\ target = Undefined
    /\ target' = Defined(resolveScreenshotTarget(schedule[1]))
    /\ UNCHANGED <<schedule, besideTarget>>

TargetInit ==
    /\ schedule \in {Defined(s) : s \in Schedules}
    /\ target = Undefined
    /\ NavIdle
    /\ DetectorsIdle
    /\ ParamsIdle
    /\ UiIdle
    /\ ReleaseIdle
    /\ InteractIdle
    /\ AppIdle
    /\ PreviewIdle

TargetNext == ResolveTarget

TargetSpec == TargetInit /\ [][TargetNext]_vars

\* C20: in HA mode (ha_mode true or undefined) resolveScreenshotTarget
\* returns isHAMode = true, path = dashboard_path, or '/lovelace/0' when
\* dashboard_path is empty or missing, and fullUrl undefined whatever the
\* schedule's target_url.
C20_HAModeTarget ==
    (target # Undefined /\ schedule[1].ha_mode \in {Undefined, Defined(TRUE)})
        => /\ target[1].isHAMode = TRUE
           /\ target[1].fullUrl = Undefined
           /\ target[1].path =
                IF schedule[1].dashboard_path \in {Undefined, Defined("")}
                THEN "/lovelace/0"
                ELSE schedule[1].dashboard_path[1]

C20_Witness ==
    /\ target # Undefined
    /\ schedule[1].ha_mode = Undefined
    /\ schedule[1].dashboard_path = Defined("")
    /\ schedule[1].target_url = Defined("https://example.com")
    /\ target[1].path = "/lovelace/0"
    /\ target[1].isHAMode

C20_WitnessDashboard ==
    /\ target # Undefined
    /\ schedule[1].ha_mode = Defined(TRUE)
    /\ schedule[1].target_url = Defined("https://example.com")
    /\ target[1].path = "/lovelace/kitchen"

\* C21: in generic mode (ha_mode false) resolveScreenshotTarget returns
\* isHAMode = false, path = '/' whatever dashboard_path is, and fullUrl
\* equal to the schedule's target_url.
C21_GenericModeTarget ==
    (target # Undefined /\ schedule[1].ha_mode = Defined(FALSE))
        => /\ target[1].isHAMode = FALSE
           /\ target[1].path = "/"
           /\ target[1].fullUrl = schedule[1].target_url

C21_Witness ==
    /\ target # Undefined
    /\ schedule[1].ha_mode = Defined(FALSE)
    /\ schedule[1].dashboard_path = Defined("/lovelace/kitchen")
    /\ schedule[1].target_url = Defined("https://example.com")
    /\ target[1].path = "/"
    /\ target[1].fullUrl = Defined("https://example.com")

\* ---------------------------------------------------------------------
\* params-builder: buildParams, getDefaults
\* ---------------------------------------------------------------------

\* getDefaults() results kept for inspection
MaxDefaultsCalls == 2

\* the JavaScript value null
Null == <<"null", "null">>

\* a value callers write into an object they were handed
Written == 2

Viewports == {Undefined, Defined([width |-> 800, height |-> 480])}

Formats == {Undefined, Defined(""), Defined("jpeg")}

Crops ==
    {Undefined}
        \cup {Defined([enabled |-> e, x |-> 10, y |-> 20,
                       width |-> 400, height |-> 300]) : e \in BOOLEAN}

Ditherings ==
    {Undefined}
        \cup {Defined([enabled |-> e, method |-> "floyd-steinberg"])
                : e \in BOOLEAN}

Zooms == {Undefined, Defined(0), Defined(2)}

Flags == {Undefined, Defined(TRUE)}

Waits == {Undefined, Defined(2000)}

\* the Schedules given to buildParams
ParamSchedules ==
    [ha_mode : {Undefined, Defined(FALSE)},
     dashboard_path : {Defined(""), Defined("/lovelace/kitchen")},
     target_url : {Defined("https://example.com")},
     format : Formats,
     viewport : Viewports,
     crop : Crops,
     dithering : Ditherings,
     wait : Waits,
     zoom : Zooms,
     invert : Flags,
     dark : Flags,
     rotate : {Defined(90)},
     lang : {Undefined},
     theme : {Defined("dark")}]

\* a ?? b where b is itself optional
NullishOpt(a, b) == IF a = Undefined THEN b ELSE a

\* schedule.format || DEFAULTS.format read as ??
formatOf_Nullish(s, defaults) == Nullish(s.format, defaults.format)

\* schedule.format || DEFAULTS.format
formatOf(s, defaults) == OrElse(s.format, defaults.format)

\* slip: the crop region is passed whether enabled or not
cropOf_IgnoreEnabled(s) == IF s.crop # Undefined THEN s.crop ELSE Null

\* schedule.crop?.enabled ? schedule.crop : null
cropOf(s) ==
    IF s.crop # Undefined /\ s.crop[1].enabled THEN s.crop ELSE Null

\* schedule.dithering?.enabled ? schedule.dithering : undefined
ditheringOf(s) ==
    IF s.dithering # Undefined /\ s.dithering[1].enabled
    THEN s.dithering
    ELSE Undefined

\* schedule.viewport ?? DEFAULTS.viewport: the object the value refers to
viewportOf(s) ==
    IF s.viewport = Undefined THEN "DEFAULTS.viewport" ELSE "schedule.viewport"

\* the content of the viewport object a reference names
Deref(ref, s, defaults) ==
    IF ref = "DEFAULTS.viewport" THEN defaults.viewport ELSE s.viewport[1]

\* buildParams(schedule) with the module's DEFAULTS as they are now
buildParams(s, defaults) ==
    LET t == resolveScreenshotTarget(s)
    IN  [pagePath |-> t.path,
         targetUrl |-> t.fullUrl,
         format |-> formatOf(s, defaults),
         viewport |-> viewportOf(s),
         crop |-> cropOf(s),
         dithering |-> ditheringOf(s),
         extraWait |-> NullishOpt(s.wait, defaults.extraWait),
         zoom |-> Nullish(s.zoom, defaults.zoom),
         invert |-> Nullish(s.invert, defaults.invert),
         dark |-> Nullish(s.dark, defaults.dark),
         rotate |-> NullishOpt(s.rotate, Undefined),
         lang |-> NullishOpt(s.lang, Undefined),
         theme |-> NullishOpt(s.theme, Undefined)]

\* { ...DEFAULTS }: own properties copied, the viewport object shared
getDefaults(defaults) ==
    [viewport |-> "DEFAULTS.viewport", extraWait |-> defaults.extraWait,
     invert |-> defaults.invert, zoom |-> defaults.zoom,
     format |-> defaults.format, dark |-> defaults.dark]

\* a caller calls buildParams(schedule); viewportSeen is what the returned
\* viewport holds at that moment
BuildParams ==
    /\ params = Undefined
    /\ params' = Defined([value |-> buildParams(schedule[1], DEFAULTS),
                          viewportSeen |->
                              Deref(viewportOf(schedule[1]), schedule[1],
                                    DEFAULTS),
                          writtenBefore |-> viewportWritten])
    /\ UNCHANGED <<schedule, DEFAULTS, defaultsOut, lastDefaults,
                   viewportWritten, besideParams>>

\* a caller calls getDefaults()
GetDefaults ==
    /\ Len(defaultsOut) < MaxDefaultsCalls
    /\ defaultsOut' = Append(defaultsOut, getDefaults(DEFAULTS))
    /\ lastDefaults' =
            Defined([getDefaults(DEFAULTS) EXCEPT
                        !.viewport = DEFAULTS.viewport])
    /\ UNCHANGED <<schedule, DEFAULTS, params, viewportWritten, besideParams>>

\* a caller assigns to an own property of an object getDefaults returned
WriteOwnProperty(i) ==
    /\ i \in 1..Len(defaultsOut)
    /\ defaultsOut[i].zoom # Written
    /\ defaultsOut' = [defaultsOut EXCEPT ![i].zoom = Written]
    /\ UNCHANGED <<schedule, DEFAULTS, params, lastDefaults, viewportWritten,
                   besideParams>>

\* the objects handed out so far whose viewport is DEFAULTS.viewport itself
SharesDefaultViewport ==
    \/ \E i \in 1..Len(defaultsOut) :
            defaultsOut[i].viewport = "DEFAULTS.viewport"
    \/ /\ params # Undefined
       /\ params[1].value.viewport = "DEFAULTS.viewport"

\* a caller assigns to viewport.width of a value it was handed, the
\* viewport being the one DEFAULTS holds
WriteViewportWidth ==
    /\ ~viewportWritten
    /\ SharesDefaultViewport
    /\ viewportWritten' = TRUE
    /\ DEFAULTS' = [DEFAULTS EXCEPT !.viewport.width = Written]
    /\ UNCHANGED <<schedule, params, defaultsOut, lastDefaults, besideParams>>

ParamsInit ==
    /\ schedule \in {Defined(s) : s \in ParamSchedules}
    /\ target = Undefined
    /\ NavIdle
    /\ DetectorsIdle
    /\ ParamsIdle
    /\ UiIdle
    /\ ReleaseIdle
    /\ InteractIdle
    /\ AppIdle
    /\ PreviewIdle

ParamsNext ==
    \/ BuildParams
    \/ GetDefaults
    \/ \E i \in 1..MaxDefaultsCalls : WriteOwnProperty(i)
    \/ WriteViewportWidth

ParamsSpec == ParamsInit /\ [][ParamsNext]_vars

\* C22: buildParams passes the crop region through only when crop.enabled
\* is true and otherwise returns crop = null; it passes dithering through
\* only when dithering.enabled is true and otherwise returns undefined.
C22_CropAndDitheringOnlyWhenEnabled ==
    params # Undefined
        => LET s == schedule[1]
               v == params[1].value
           IN  /\ v.crop = IF s.crop \in {c \in Crops \ {Undefined} :
                                              c[1].enabled = TRUE}
                           THEN s.crop
                           ELSE Null
               /\ v.dithering =
                    IF s.dithering \in {d \in Ditherings \ {Undefined} :
                                            d[1].enabled = TRUE}
                    THEN s.dithering
                    ELSE Undefined

C22_Witness ==
    /\ params # Undefined
    /\ schedule[1].crop # Undefined
    /\ ~schedule[1].crop[1].enabled
    /\ params[1].value.crop = Null
    /\ schedule[1].dithering # Undefined
    /\ schedule[1].dithering[1].enabled
    /\ params[1].value.dithering = schedule[1].dithering

\* the path resolveScreenshotTarget gives a schedule
ResolvedPath(s) ==
    IF s.ha_mode \in {Undefined, Defined(TRUE)}
    THEN IF s.dashboard_path \in {Undefined, Defined("")}
         THEN "/lovelace/0"
         ELSE s.dashboard_path[1]
    ELSE "/"

C24_DefaultsUnaffectedByWrites ==
    /\ lastDefaults # Undefined => lastDefaults[1] = DEFAULTS_LITERAL
    /\ (params # Undefined /\ schedule[1].viewport = Undefined)
            => params[1].viewportSeen = DEFAULTS_LITERAL.viewport

\* ---------------------------------------------------------------------
\* ui: handleUIRequest, fetchHomeAssistantData, withTimeout
\* ---------------------------------------------------------------------

HA_CONNECTION_TIMEOUT == 5000

\* step of the clock while createConnection is pending
UiTick == 2500

\* requests served one after the other
MaxUiRequests == 2

\* let hassData = { themes: null, network: null, config: null,
\*                  dashboards: null }
NullData ==
    [themes |-> "null", network |-> "null", config |-> "null",
     dashboards |-> "null"]

NoResponse == [status |-> 0, body |-> "none"]

\* configResponse.ok ? await configResponse.json() : null, for a fetch that
\* resolved with outcome "ok" or "notOk"
configOf(outcome) == IF outcome = "ok" THEN "config" ELSE "null"

\* slip: haConnected looks at themes alone
haConnectedOf_ThemesOnly(hassData) == hassData.themes # "null"

\* !!(hassData.themes && hassData.config)
haConnectedOf(hassData) ==
    hassData.themes # "null" /\ hassData.config # "null"

\* the catch block of fetchHomeAssistantData: all-null data, and
\* handleUIRequest goes on to read index.html
fetchFailed(u, why) ==
    [u EXCEPT !.pc = "readFile", !.hassData = NullData,
              !.failures = @ \cup {why}]

\* handleUIRequest(response) up to its first await
UiRequest ==
    /\ ui.pc \in {"idle", "done"}
    /\ IF ui.pc = "idle" THEN TRUE ELSE ui.requests < MaxUiRequests
    /\ ui' = [pc |-> IF hassToken THEN "connecting" ELSE "readFile",
              requests |-> IF ui.pc = "idle" THEN 1 ELSE ui.requests + 1,
              hassData |-> NullData,
              waited |-> 0,
              attempts |-> IF hassToken THEN 1 ELSE 0,
              open |-> FALSE,
              latePending |-> IF ui.pc = "idle" THEN 0 ELSE ui.latePending,
              orphans |-> IF ui.pc = "idle" THEN 0 ELSE ui.orphans,
              failures |-> {},
              haConnected |-> FALSE,
              response |-> NoResponse]
    /\ UNCHANGED <<hassToken, besideUi>>

\* time passes while createConnection is pending
UiTimePasses ==
    /\ ui.pc = "connecting"
    /\ ui.waited < HA_CONNECTION_TIMEOUT
    /\ ui' = [ui EXCEPT !.waited = @ + UiTick]
    /\ UNCHANGED <<hassToken, besideUi>>

\* createConnection settles before the timer of withTimeout fires
ConnectionSettled(ok) ==
    /\ ui.pc = "connecting"
    /\ ui.waited <= HA_CONNECTION_TIMEOUT
    /\ ui' = IF ok
             THEN [ui EXCEPT !.pc = "messages", !.open = TRUE]
             ELSE fetchFailed(ui, "connect")
    /\ UNCHANGED <<hassToken, besideUi>>

\* the timer of withTimeout fires first: the race rejects
ConnectionTimedOut ==
    /\ ui.pc = "connecting"
    /\ ui.waited >= HA_CONNECTION_TIMEOUT
    /\ ui' = fetchFailed([ui EXCEPT !.latePending = @ + 1], "timeout")
    /\ UNCHANGED <<hassToken, besideUi>>

\* createConnection settles after the race of withTimeout was lost: nothing
\* holds the connection it may have opened
LateConnectionSettled(ok) ==
    /\ ui.pc # "idle"
    /\ ui.latePending > 0
    /\ ui' = [ui EXCEPT !.latePending = @ - 1,
                        !.orphans = IF ok THEN @ + 1 ELSE @]
    /\ UNCHANGED <<hassToken, besideUi>>

\* Promise.all of the three sendMessagePromise calls settles; the third has
\* .catch(() => null); on success connection.close() and fetch follow
MessagesSettled(themes, network, dashboards) ==
    /\ ui.pc = "messages"
    /\ ui' = IF themes /\ network
             THEN [ui EXCEPT !.pc = "rest", !.open = FALSE,
                             !.hassData =
                                [themes |-> "themes", network |-> "network",
                                 config |-> "null",
                                 dashboards |-> IF dashboards THEN "listed"
                                                ELSE "standard"],
                             !.failures = IF dashboards THEN @
                                          ELSE @ \cup {"dashboards"}]
             ELSE fetchFailed([ui EXCEPT !.failures =
                                    IF dashboards THEN @
                                    ELSE @ \cup {"dashboards"}],
                              IF themes THEN "network" ELSE "themes")
    /\ UNCHANGED <<hassToken, besideUi>>

\* fetch(`${hassUrl}/api/config`) settles: "ok", "notOk" or "rejected"
RestSettled(outcome) ==
    /\ ui.pc = "rest"
    /\ ui' = IF outcome = "rejected"
             THEN fetchFailed(ui, "rest")
             ELSE IF outcome = "ok"
                  THEN [ui EXCEPT !.pc = "json"]
                  ELSE [ui EXCEPT !.pc = "readFile",
                                  !.hassData.config = configOf(outcome),
                                  !.failures = @ \cup {"restStatus"}]
    /\ UNCHANGED <<hassToken, besideUi>>

\* configResponse.json() settles
JsonSettled(ok) ==
    /\ ui.pc = "json"
    /\ ui' = IF ok
             THEN [ui EXCEPT !.pc = "readFile",
                             !.hassData.config = configOf("ok")]
             ELSE fetchFailed(ui, "json")
    /\ UNCHANGED <<hassToken, besideUi>>

\* readFile(index.html) settles and loadPresets() returns or throws; the
\* page is sent, or the catch block answers 500
FileRead(ok) ==
    /\ ui.pc = "readFile"
    /\ ui' = IF ok
             THEN [ui EXCEPT !.pc = "done",
                             !.haConnected = haConnectedOf(ui.hassData),
                             !.response =
                                [status |-> 200, body |-> "index.html",
                                 hass |-> ui.hassData,
                                 uiConfig |->
                                    [hasToken |-> hassToken,
                                     haConnected |->
                                        haConnectedOf(ui.hassData)]]]
             ELSE [ui EXCEPT !.pc = "done",
                             !.failures = @ \cup {"file"},
                             !.response =
                                [status |-> 500, body |-> "Error loading UI"]]
    /\ UNCHANGED <<hassToken, besideUi>>

UiInit ==
    /\ hassToken \in BOOLEAN
    /\ ui = [pc |-> "idle"]
    /\ NavIdle
    /\ DetectorsIdle
    /\ TargetIdle
    /\ ParamsIdle
    /\ ReleaseIdle
    /\ InteractIdle
    /\ AppIdle
    /\ PreviewIdle

UiNext ==
    \/ UiRequest
    \/ UiTimePasses
    \/ \E ok \in BOOLEAN : ConnectionSettled(ok)
    \/ ConnectionTimedOut
    \/ \E ok \in BOOLEAN : LateConnectionSettled(ok)
    \/ \E themes \in BOOLEAN, network \in BOOLEAN, dashboards \in BOOLEAN :
            MessagesSettled(themes, network, dashboards)
    \/ \E outcome \in {"ok", "notOk", "rejected"} : RestSettled(outcome)
    \/ \E ok \in BOOLEAN : JsonSettled(ok)
    \/ \E ok \in BOOLEAN : FileRead(ok)

UiSpec == UiInit /\ [][UiNext]_vars

\* failures after which fetchHomeAssistantData ends in its catch block
Thrown == {"timeout", "connect", "themes", "network", "rest", "json"}

\* C25 (as stated): the UI page is served with status 200 whatever Home
\* Assistant does: without a token no connection is attempted, and with a
\* token every failure of the HA fetch yields all-null HA data and
\* haConnected = false in the served page.
C25_AnyHaFailureYieldsAllNull ==
    (ui.pc = "done" /\ "file" \notin ui.failures)
        => /\ ui.response.status = 200
           /\ ui.response.body = "index.html"
           /\ ~hassToken
                => /\ ui.attempts = 0
                   /\ ui.response.hass = NullData
                   /\ ~ui.response.uiConfig.haConnected
           /\ (hassToken /\ ui.failures # {})
                => /\ ui.response.hass = NullData
                   /\ ~ui.response.uiConfig.haConnected

\* C25 (amended): Home Assistant never causes an error page: the answer is
\* 500 only when index.html or the presets cannot be read. Without a token
\* nothing is attempted and the data is all null. A connection timeout
\* (after 5 s), a refused connection, a rejected themes or network message
\* and a rejected or unparsable REST call give all-null data; a REST answer
\* with a non-OK status gives config = null with themes, network and
\* dashboards kept; both give haConnected = false. A rejected dashboards
\* message only leaves the standard dashboard list.
C25_UiServedWhateverHaDoes ==
    ui.pc = "done"
        => /\ ui.response.status = IF "file" \in ui.failures THEN 500 ELSE 200
           /\ "timeout" \in ui.failures => ui.waited >= HA_CONNECTION_TIMEOUT
           /\ ui.open = (ui.failures \cap {"themes", "network"} # {})
           /\ ui.response.status = 200
                => /\ ui.response.body = "index.html"
                   /\ ui.response.uiConfig.hasToken = hassToken
                   /\ ~hassToken
                        => /\ ui.attempts = 0
                           /\ ui.response.hass = NullData
                           /\ ~ui.response.uiConfig.haConnected
                   /\ ui.failures \cap Thrown # {}
                        => /\ ui.response.hass = NullData
                           /\ ~ui.response.uiConfig.haConnected
                   /\ "restStatus" \in ui.failures
                        => /\ ui.response.hass.config = "null"
                           /\ ui.response.hass.themes = "themes"
                           /\ ui.response.hass.network = "network"
                           /\ ui.response.hass.dashboards # "null"
                           /\ ~ui.response.uiConfig.haConnected
                   /\ (hassToken /\ ui.failures \subseteq {"dashboards"})
                        => /\ ui.response.uiConfig.haConnected
                           /\ ui.response.hass.config = "config"
                           /\ ui.response.hass.dashboards =
                                IF ui.failures = {} THEN "listed"
                                ELSE "standard"

C25_Witness ==
    /\ ui.pc = "done"
    /\ hassToken
    /\ ui.failures = {"timeout"}
    /\ ui.response.status = 200
    /\ ui.response.hass = NullData
    /\ ui.requests = 2

C25_WitnessRestStatus ==
    /\ ui.pc = "done"
    /\ ui.failures = {"restStatus"}
    /\ ui.response.status = 200
    /\ ui.response.hass.themes = "themes"

\* ---------------------------------------------------------------------
\* scripts/release.js
\* ---------------------------------------------------------------------

\* decimal digits, as characters
Digits == <<"0", "1", "2", "3", "4", "5", "6", "7", "8", "9">>

Dot == "."

\* Number(text) for a text of decimal digits
RECURSIVE Number(_)
Number(ds) ==
    IF ds = << >> THEN 0
    ELSE 10 * Number(SubSeq(ds, 1, Len(ds) - 1))
            + (CHOOSE d \in 0..9 : Digits[d + 1] = ds[Len(ds)])

\* `${n}` for a non-negative integer
RECURSIVE NumberText(_)
NumberText(n) ==
    IF n < 10 THEN <<Digits[n + 1]>>
    ELSE NumberText(n \div 10) \o <<Digits[(n % 10) + 1]>>

\* text.split('.')
RECURSIVE Split(_)
Split(text) ==
    IF \E i \in 1..Len(text) : text[i] = Dot
    THEN LET i == CHOOSE k \in 1..Len(text) :
                    /\ text[k] = Dot
                    /\ \A j \in 1..(k - 1) : text[j] # Dot
         IN  <<SubSeq(text, 1, i - 1)>>
                \o Split(SubSeq(text, i + 1, Len(text)))
    ELSE <<text>>

\* `${a}.${b}.${c}`
Dotted(a, b, c) ==
    NumberText(a) \o <<Dot>> \o NumberText(b) \o <<Dot>> \o NumberText(c)

InvalidBumpType == [kind |-> "thrown", value |-> << >>]

\* slip: a minor bump keeps the patch number
bumpVersion_MinorKeepsPatch(version, type) ==
    LET parts == Split(version)
        major == Number(parts[1])
        minor == Number(parts[2])
        patch == Number(parts[3])
    IN  CASE type = "major" ->
                [kind |-> "returned", value |-> Dotted(major + 1, 0, 0)]
          [] type = "minor" ->
                [kind |-> "returned", value |-> Dotted(major, minor + 1, patch)]
          [] type = "patch" ->
                [kind |-> "returned", value |-> Dotted(major, minor, patch + 1)]
          [] OTHER -> InvalidBumpType

\* bumpVersion(version, type): the text returned, or the throw
bumpVersion(version, type) ==
    LET parts == Split(version)
        major == Number(parts[1])
        minor == Number(parts[2])
        patch == Number(parts[3])
    IN  CASE type = "major" ->
                [kind |-> "returned", value |-> Dotted(major + 1, 0, 0)]
          [] type = "minor" ->
                [kind |-> "returned", value |-> Dotted(major, minor + 1, 0)]
          [] type = "patch" ->
                [kind |-> "returned", value |-> Dotted(major, minor, patch + 1)]
          [] OTHER -> InvalidBumpType

\* versions found in package.json, each with the three bumps expected of it
VersionTable ==
    {[version |-> <<"0", ".", "0", ".", "1">>,
      major |-> <<"1", ".", "0", ".", "0">>,
      minor |-> <<"0", ".", "1", ".", "0">>,
      patch |-> <<"0", ".", "0", ".", "2">>],
     [version |-> <<"1", ".", "9", ".", "9">>,
      major |-> <<"2", ".", "0", ".", "0">>,
      minor |-> <<"1", ".", "1", "0", ".", "0">>,
      patch |-> <<"1", ".", "9", ".", "1", "0">>],
     [version |-> <<"9", ".", "0", ".", "1", "9">>,
      major |-> <<"1", "0", ".", "0", ".", "0">>,
      minor |-> <<"9", ".", "1", ".", "0">>,
      patch |-> <<"9", ".", "0", ".", "2", "0">>]}

Versions == {row.version : row \in VersionTable}

\* most commits found since the last tag
MaxCommits == 1

\* args[0] of the command line
BumpArgs == {"patch", "minor", "major", "bogus", "--dry-run"}

\* type arguments of a direct bumpVersion call
BumpTypes == {"patch", "minor", "major", "bogus", "Patch", ""}

\* slip: gitCommitAndTag runs the commands in a dry run too
gitCommitAndTag_IgnoreDryRun(version, dryRun) ==
    <<"git add", "git commit", "git tag">>

\* gitCommitAndTag(version, dryRun): the commands it executes
gitCommitAndTag(version, dryRun) ==
    IF dryRun THEN << >> ELSE <<"git add", "git commit", "git tag">>

\* process.exit(code), or the end of the script
Exit(r, code) == [r EXCEPT !.pc = "done", !.exit = code]

\* the script is started: bun scripts/release.js <args>
ReleaseStarted(arg0, dryRun, push, branch, dirty, commits, version) ==
    /\ rel.pc = "idle"
    /\ rel' = [pc |-> "args", bumpType |-> arg0, dryRun |-> dryRun,
               push |-> push, branch |-> branch, dirty |-> dirty,
               commits |-> commits, currentVersion |-> version,
               newVersion |-> << >>,
               packageJson |-> version, configYaml |-> version,
               changelog |-> << >>,
               queue |-> << >>, commit |-> << >>, tags |-> {},
               pushed |-> FALSE, released |-> FALSE,
               entries |-> Undefined, trace |-> << >>,
               effects |-> {}, exit |-> 0]
    /\ UNCHANGED <<bumped, besideRelease>>

\* the check of args[0] at the top level of the script
ArgsChecked ==
    /\ rel.pc = "args"
    /\ rel' = IF rel.bumpType \in {"patch", "minor", "major"}
              THEN [rel EXCEPT !.pc = "release"]
              ELSE Exit(rel, 1)
    /\ UNCHANGED <<bumped, besideRelease>>

\* getCommitsSinceLastTag(): the commits git log lists after the newest tag
getCommitsSinceLastTag(r) == IF r.tags # {} THEN 0 ELSE r.commits

\* slip: only the branch is checked before the files are written
releaseRefused_BranchOnly(branch, dirty) == branch # "main"

\* the branch check and the uncommitted-changes check of release()
releaseRefused(branch, dirty) == branch # "main" \/ dirty

\* release(): versions, commits since the last tag, then the dry-run branch
\* or the branch and clean-tree checks
ReleaseEntered ==
    /\ rel.pc = "release"
    /\ LET v == bumpVersion(rel.currentVersion, rel.bumpType)
           r == [rel EXCEPT !.newVersion = v.value,
                            !.entries = Defined(getCommitsSinceLastTag(rel)),
                            !.trace = Append(@, "git log")]
       IN  rel' =
             IF v.kind = "thrown" THEN Exit(rel, 1)
             ELSE IF rel.dryRun
             THEN [r EXCEPT !.pc = "git",
                            !.queue = gitCommitAndTag(v.value, TRUE)]
             ELSE IF releaseRefused(rel.branch, rel.dirty)
             THEN Exit(r, 1)
             ELSE [r EXCEPT !.pc = "update"]
    /\ UNCHANGED <<bumped, besideRelease>>

\* updatePackageJson, updateConfigYaml, updateChangelog, then the commands
\* of gitCommitAndTag are queued
FilesUpdated ==
    /\ rel.pc = "update"
    /\ rel' = [rel EXCEPT
                !.pc = "git",
                !.packageJson = rel.newVersion,
                !.configYaml = rel.newVersion,
                !.changelog = IF rel.entries[1] > 0
                              THEN <<rel.newVersion>> \o @
                              ELSE @,
                !.effects = @ \cup {"write package.json", "write config.yaml"}
                              \cup (IF rel.entries[1] > 0
                                    THEN {"write CHANGELOG.md"} ELSE {}),
                !.trace = @ \o <<"write package.json", "write config.yaml">>
                            \o (IF rel.entries[1] > 0
                                THEN <<"write CHANGELOG.md">> ELSE << >>),
                !.queue = gitCommitAndTag(rel.newVersion, FALSE)]
    /\ UNCHANGED <<bumped, besideRelease>>

\* execSync of the next command of gitCommitAndTag returns or throws
GitCommandRun(ok) ==
    /\ rel.pc = "git"
    /\ rel.queue # << >>
    /\ LET cmd == Head(rel.queue)
           ran == [rel EXCEPT !.effects = @ \cup {cmd},
                              !.trace = Append(@, cmd),
                              !.queue = Tail(@)]
       IN  rel' =
             IF ~ok THEN Exit(ran, 1)
             ELSE IF cmd = "git commit"
             THEN [ran EXCEPT !.commit = rel.newVersion]
             ELSE IF cmd = "git tag"
             THEN [ran EXCEPT !.tags = @ \cup {rel.newVersion}]
             ELSE ran
    /\ UNCHANGED <<bumped, besideRelease>>

\* gitCommitAndTag has returned
GitCommandsDone ==
    /\ rel.pc = "git"
    /\ rel.queue = << >>
    /\ rel' = IF rel.dryRun \/ ~rel.push
              THEN Exit(rel, 0)
              ELSE [rel EXCEPT !.pc = "push"]
    /\ UNCHANGED <<bumped, besideRelease>>

\* git push && git push origin v<version> returns or throws
PushRun(ok) ==
    /\ rel.pc = "push"
    /\ rel' = IF ok
              THEN [rel EXCEPT !.pc = "gh", !.pushed = TRUE,
                               !.effects = @ \cup {"git push"}]
              ELSE Exit([rel EXCEPT !.effects = @ \cup {"git push"}], 1)
    /\ UNCHANGED <<bumped, besideRelease>>

\* gh release create returns or throws (caught)
GhReleaseRun(ok) ==
    /\ rel.pc = "gh"
    /\ rel' = Exit([rel EXCEPT !.released = ok,
                               !.effects = @ \cup {"gh release"}], 0)
    /\ UNCHANGED <<bumped, besideRelease>>

\* bumpVersion called on its own
BumpVersionCalled(version, type) ==
    /\ bumped.kind = "none"
    /\ rel.pc = "idle"
    /\ bumped' = [kind |-> "called", version |-> version, type |-> type,
                  out |-> bumpVersion(version, type)]
    /\ UNCHANGED <<rel, besideRelease>>

ReleaseInit ==
    /\ ReleaseIdle
    /\ NavIdle
    /\ DetectorsIdle
    /\ TargetIdle
    /\ ParamsIdle
    /\ UiIdle
    /\ InteractIdle
    /\ AppIdle
    /\ PreviewIdle

ReleaseNext ==
    \/ \E arg0 \in BumpArgs, dryRun \in BOOLEAN, push \in BOOLEAN,
          branch \in {"main", "feature"}, dirty \in BOOLEAN,
          commits \in 0..MaxCommits, version \in Versions :
            ReleaseStarted(arg0, dryRun, push, branch, dirty, commits, version)
    \/ ArgsChecked
    \/ ReleaseEntered
    \/ FilesUpdated
    \/ \E ok \in BOOLEAN : GitCommandRun(ok)
    \/ GitCommandsDone
    \/ \E ok \in BOOLEAN : PushRun(ok)
    \/ \E ok \in BOOLEAN : GhReleaseRun(ok)
    \/ \E version \in Versions, type \in BumpTypes :
            BumpVersionCalled(version, type)

ReleaseSpec == ReleaseInit /\ [][ReleaseNext]_vars

\* ---------------------------------------------------------------------
\* C26: a run with --dry-run leaves package.json, config.yaml and
\* CHANGELOG.md as they were and executes no git add, git commit, git tag,
\* git push and no gh release, on any branch, with a clean or a dirty tree.
\* ---------------------------------------------------------------------
C26_DryRunChangesNothing ==
    (rel.pc # "idle" /\ rel.dryRun) =>
        /\ rel.effects = {}
        /\ rel.packageJson = rel.currentVersion
        /\ rel.configYaml = rel.currentVersion
        /\ rel.changelog = << >>
        /\ rel.commit = << >>
        /\ rel.tags = {}
        /\ ~rel.pushed
        /\ ~rel.released

\* a dry run that went through, off main, with uncommitted changes and --push
C26_Witness ==
    /\ rel.pc = "done"
    /\ rel.dryRun
    /\ rel.push
    /\ rel.exit = 0
    /\ rel.branch = "feature"
    /\ rel.dirty
    /\ rel.commits > 0
    /\ rel.newVersion # << >>

\* ---------------------------------------------------------------------
\* C27: bumpVersion gives (M+1).0.0 for 'major', M.(m+1).0 for 'minor',
\* M.m.(p+1) for 'patch', and throws for every other bump type.
\* ---------------------------------------------------------------------
C27_BumpVersionMapping ==
    /\ bumped.kind = "called" =>
         LET row == CHOOSE r \in VersionTable : r.version = bumped.version
         IN  CASE bumped.type = "major" ->
                    bumped.out = [kind |-> "returned", value |-> row.major]
               [] bumped.type = "minor" ->
                    bumped.out = [kind |-> "returned", value |-> row.minor]
               [] bumped.type = "patch" ->
                    bumped.out = [kind |-> "returned", value |-> row.patch]
               [] OTHER -> bumped.out.kind = "thrown"
    /\ (rel.pc \notin {"idle", "args", "release"} /\ rel.newVersion # << >>) =>
         LET row == CHOOSE r \in VersionTable : r.version = rel.currentVersion
         IN  rel.newVersion = row[rel.bumpType]

\* a minor bump that carries into a second digit and resets the patch number
C27_Witness ==
    /\ bumped.kind = "called"
    /\ bumped.version = <<"1", ".", "9", ".", "9">>
    /\ bumped.type = "minor"
    /\ bumped.out.value = <<"1", ".", "1", "0", ".", "0">>

\* a bump type that differs from 'patch' only in case
C27_WitnessThrown ==
    /\ bumped.kind = "called"
    /\ bumped.type = "Patch"
    /\ bumped.out.kind = "thrown"

\* the running call has registered its script and not yet removed it
HookInPlace ==
    /\ pc = "goto"
    /\ call.evaluateId # NoId
    /\ call.evaluateId \in scripts

\* ---------------------------------------------------------------------
\* C28: in a document created while the auth hook is registered, every
\* key/value pair of AuthStorage is in the document's client-side storage
\* before the page's scripts run, and so is what those scripts read; and
\* the mapping NavigateToPage holds stays the one it was given, over any
\* sequence of calls.
\* ---------------------------------------------------------------------
C28_HookWritesEveryPairAndLeavesMapping ==
    /\ (HookInPlace /\ doc.stage \in {"created", "loaded"}) =>
            authGiven \subseteq doc.storage
    /\ (HookInPlace /\ doc.stage = "loaded") =>
            authGiven \subseteq doc.seen
    /\ authStorage = authGiven

\* the page's scripts have run in a document created over stale entries,
\* with a two-entry mapping registered
C28_Witness ==
    /\ HookInPlace
    /\ doc.stage = "loaded"
    /\ Cardinality(authGiven) = 2
    /\ <<"hassTokens", "token">> \in doc.seen
    /\ <<"selectedLanguage", "en">> \in doc.seen
    /\ <<"hassTokens", "stale">> \notin doc.seen
    /\ <<"dockedSidebar", "auto">> \in doc.seen

\* the mapping is intact after two calls
C28_WitnessTwoCalls ==
    /\ ncalls = MaxCalls
    /\ pc = "idle"
    /\ scriptArgs # << >>
    /\ authStorage = authGiven
    /\ authGiven # {}

\* ---------------------------------------------------------------------
\* DismissToastsAndSetZoom, UpdateLanguage, UpdateTheme
\* ---------------------------------------------------------------------

\* documents a command may find: which of body, <home-assistant>, its shadow
\* root, <notification-manager>, its shadow root, the toast's action element
\* and the _selectLanguage entry point exist
Pages ==
    {pg \in [body : BOOLEAN, root : BOOLEAN, rootShadow : BOOLEAN,
             notify : BOOLEAN, notifyShadow : BOOLEAN, action : BOOLEAN,
             selectLanguage : BOOLEAN, zoom : {<< >>}, clicks : {0},
             languageCalls : {<< >>}, events : {<< >>}] :
        /\ pg.root => pg.body
        /\ pg.rootShadow => pg.root
        /\ pg.notify => pg.rootShadow
        /\ pg.notifyShadow => pg.notify
        /\ pg.action => pg.notifyShadow
        /\ pg.selectLanguage => pg.root}

\* zoom arguments
ZoomLevels == {1, 2}

\* lang arguments
Langs == {Undefined, Defined(""), Defined("de")}

\* theme arguments
Themes == {Undefined, Defined(""), Defined("dark-theme")}

\* the in-page function threw
TypeError == [kind |-> "thrown", value |-> FALSE]

\* the in-page function returned value
Value(v) == [kind |-> "returned", value |-> v]

\* the function DismissToastsAndSetZoom evaluates in the page
dismissInPage(pg, zoomLevel) ==
    IF ~pg.body THEN [page |-> pg, out |-> TypeError]
    ELSE LET zoomed == [pg EXCEPT !.zoom = NumberText(zoomLevel)]
         IN  IF ~pg.root THEN [page |-> zoomed, out |-> Value(FALSE)]
             ELSE IF ~(pg.rootShadow /\ pg.notify)
             THEN [page |-> zoomed, out |-> Value(FALSE)]
             ELSE IF ~(pg.notifyShadow /\ pg.action)
             THEN [page |-> zoomed, out |-> Value(FALSE)]
             ELSE [page |-> [zoomed EXCEPT !.clicks = @ + 1],
                   out |-> Value(TRUE)]

\* the function UpdateLanguage evaluates in the page
languageInPage(pg, newLang) ==
    IF pg.root /\ pg.selectLanguage
    THEN [page |-> [pg EXCEPT !.languageCalls = Append(@, <<newLang, FALSE>>)],
          out |-> Value(FALSE)]
    ELSE [page |-> pg, out |-> Value(FALSE)]

\* the function UpdateTheme evaluates in the page
themeInPage(pg, theme, dark) ==
    IF pg.root
    THEN [page |-> [pg EXCEPT !.events =
                        Append(@, [type |-> "settheme", theme |-> theme,
                                   dark |-> dark])],
          out |-> Value(FALSE)]
    ELSE [page |-> pg, out |-> Value(FALSE)]

\* DismissToastsAndSetZoom.call(zoom) up to its await
DismissToastsAndSetZoomCalled(pg, zoom) ==
    /\ ix.pc = "idle"
    /\ ix' = [pc |-> "evaluate", cmd |-> "DismissToastsAndSetZoom",
              before |-> pg, page |-> pg, zoom |-> zoom,
              lang |-> Undefined, theme |-> Undefined, dark |-> FALSE,
              out |-> [kind |-> "pending", value |-> FALSE],
              ran |-> FALSE]
    /\ UNCHANGED besideInteract

\* UpdateLanguage.call(lang) up to its await
UpdateLanguageCalled(pg, lang) ==
    /\ ix.pc = "idle"
    /\ ix' = [pc |-> "evaluate", cmd |-> "UpdateLanguage",
              before |-> pg, page |-> pg, zoom |-> 0,
              lang |-> lang, theme |-> Undefined, dark |-> FALSE,
              out |-> [kind |-> "pending", value |-> FALSE],
              ran |-> FALSE]
    /\ UNCHANGED besideInteract

\* UpdateTheme.call(theme, dark) up to its await
UpdateThemeCalled(pg, theme, dark) ==
    /\ ix.pc = "idle"
    /\ ix' = [pc |-> "evaluate", cmd |-> "UpdateTheme",
              before |-> pg, page |-> pg, zoom |-> 0,
              lang |-> Undefined, theme |-> theme, dark |-> dark,
              out |-> [kind |-> "pending", value |-> FALSE],
              ran |-> FALSE]
    /\ UNCHANGED besideInteract

\* page.evaluate runs the function in the page and settles with what it
\* returned or threw; the command returns or rethrows that
InPageEvaluated ==
    /\ ix.pc = "evaluate"
    /\ LET r == CASE ix.cmd = "DismissToastsAndSetZoom" ->
                        dismissInPage(ix.page, ix.zoom)
                  [] ix.cmd = "UpdateLanguage" ->
                        languageInPage(ix.page, OrElse(ix.lang, "en"))
                  [] ix.cmd = "UpdateTheme" ->
                        themeInPage(ix.page, OrElse(ix.theme, ""), ix.dark)
       IN  ix' = [ix EXCEPT !.pc = "done", !.page = r.page, !.out = r.out,
                            !.ran = TRUE]
    /\ UNCHANGED besideInteract

\* page.evaluate rejects without running the function: the page is closed
\* or its execution context is gone
EvaluateRejected ==
    /\ ix.pc = "evaluate"
    /\ ix' = [ix EXCEPT !.pc = "done", !.out = TypeError]
    /\ UNCHANGED besideInteract

InteractInit ==
    /\ InteractIdle
    /\ NavIdle
    /\ DetectorsIdle
    /\ TargetIdle
    /\ ParamsIdle
    /\ UiIdle
    /\ ReleaseIdle
    /\ AppIdle
    /\ PreviewIdle

InteractNext ==
    \/ \E pg \in Pages, zoom \in ZoomLevels :
            DismissToastsAndSetZoomCalled(pg, zoom)
    \/ \E pg \in Pages, lang \in Langs : UpdateLanguageCalled(pg, lang)
    \/ \E pg \in Pages, theme \in Themes, dark \in BOOLEAN :
            UpdateThemeCalled(pg, theme, dark)
    \/ InPageEvaluated
    \/ EvaluateRejected

InteractSpec == InteractInit /\ [][InteractNext]_vars

\* ---------------------------------------------------------------------
\* C29: whenever the in-page function of an interaction command has run,
\* the command has not raised; DismissToastsAndSetZoom has set the zoom to
\* the given factor and returned true exactly when the toast's action
\* element was there and was clicked; UpdateLanguage has called the entry
\* point once with the given language ('en' when none) if root and entry
\* point exist and not at all otherwise; UpdateTheme has dispatched one
\* settheme event if the root exists and none otherwise.
\* ---------------------------------------------------------------------
C29_InteractionsBestEffort ==
    (ix.pc = "done" /\ ix.ran) =>
        /\ ix.out.kind = "returned"
        /\ ix.cmd = "DismissToastsAndSetZoom" =>
            /\ ix.page.zoom = NumberText(ix.zoom)
            /\ ix.out.value = ix.before.action
            /\ ix.page.clicks = IF ix.before.action THEN 1 ELSE 0
        /\ ix.cmd = "UpdateLanguage" =>
            ix.page.languageCalls =
                IF ix.before.root /\ ix.before.selectLanguage
                THEN <<<<IF ix.lang \in {Undefined, Defined("")}
                         THEN "en" ELSE ix.lang[1], FALSE>>>>
                ELSE << >>
        /\ ix.cmd = "UpdateTheme" =>
            Len(ix.page.events) = IF ix.before.root THEN 1 ELSE 0

\* ---------------------------------------------------------------------
\* App.sendNow, App.updateScheduleFromForm
\* ---------------------------------------------------------------------

\* most form changes (each one an auto-save) while sendNow is in progress
MaxFormChanges == 2

ScheduleIds == {"a", "b"}

\* slip: updateScheduleFromForm is called but not awaited
sendNowResumes_NoAwait(form) == TRUE

\* await this.updateScheduleFromForm(): sendNow goes on once the promise of
\* its updateScheduleFromForm call has settled
sendNowResumes(form) == form \in {"fulfilled", "rejected"}

\* the Send button is clicked: sendNow runs up to its first await, and with
\* it updateScheduleFromForm up to its own
SendNowClicked(scheduleId, active, autoRefresh) ==
    /\ app.pc = "idle"
    /\ app' = [pc |-> "awaitSave", scheduleId |-> scheduleId,
               active |-> active, autoRefresh |-> autoRefresh,
               button |-> "Saving...", disabled |-> TRUE,
               form |-> IF active = Undefined THEN "fulfilled"
                        ELSE "pending",
               saveRequest |-> IF active = Undefined THEN "none"
                               ELSE "inflight",
               send |-> "none", changes |-> 0, saves |-> 0,
               previews |-> 0, out |-> "pending"]
    /\ UNCHANGED besideApp

\* scheduleManager.update of sendNow's updateScheduleFromForm settles; on
\* success the rest of updateScheduleFromForm runs
OwnSaveSettled(ok) ==
    /\ app.pc # "idle"
    /\ app.saveRequest = "inflight"
    /\ app' = IF ok
              THEN [app EXCEPT !.saveRequest = "done", !.form = "fulfilled",
                               !.previews = IF app.autoRefresh
                                            THEN @ + 1 ELSE @]
              ELSE [app EXCEPT !.saveRequest = "failed", !.form = "rejected"]
    /\ UNCHANGED besideApp

\* sendNow after await this.updateScheduleFromForm(): the send is issued,
\* or the rejection is passed on
SendNowResumed ==
    /\ app.pc = "awaitSave"
    /\ sendNowResumes(app.form)
    /\ app' = IF app.form = "rejected"
              THEN [app EXCEPT !.pc = "done", !.out = "rejected"]
              ELSE [app EXCEPT !.pc = "awaitSend", !.button = "Sending...",
                               !.send = "inflight"]
    /\ UNCHANGED besideApp

\* sendCommand.call(scheduleId) settles with its result; the alert opens
SendSettled(success) ==
    /\ app.pc = "awaitSend"
    /\ app' = [app EXCEPT !.pc = "alert",
                          !.send = IF success THEN "success" ELSE "failure",
                          !.button = IF success THEN "Sent!" ELSE "Failed"]
    /\ UNCHANGED besideApp

\* the alert is closed; the button is reset if it is still in the document
AlertClosed(inDocument) ==
    /\ app.pc = "alert"
    /\ app' = IF inDocument
              THEN [app EXCEPT !.pc = "done", !.out = "returned",
                               !.button = "originalText", !.disabled = FALSE]
              ELSE [app EXCEPT !.pc = "done", !.out = "returned"]
    /\ UNCHANGED besideApp

\* a form field changes while sendNow is in progress: its handler calls
\* updateScheduleFromForm, which issues another save
FormChanged ==
    /\ app.pc \notin {"idle", "done"}
    /\ app.active # Undefined
    /\ app.changes < MaxFormChanges
    /\ app' = [app EXCEPT !.changes = @ + 1, !.saves = @ + 1]
    /\ UNCHANGED besideApp

\* the save of a form change settles
AutoSaveSettled(ok) ==
    /\ app.pc # "idle"
    /\ app.saves > 0
    /\ app' = [app EXCEPT !.saves = @ - 1,
                          !.previews = IF ok /\ app.autoRefresh
                                       THEN @ + 1 ELSE @]
    /\ UNCHANGED besideApp

AppInit ==
    /\ AppIdle
    /\ PreviewIdle
    /\ NavIdle
    /\ DetectorsIdle
    /\ TargetIdle
    /\ ParamsIdle
    /\ UiIdle
    /\ ReleaseIdle
    /\ InteractIdle

AppNext ==
    \/ \E scheduleId \in ScheduleIds, autoRefresh \in BOOLEAN,
          active \in {Undefined} \cup {Defined(id) : id \in ScheduleIds} :
            SendNowClicked(scheduleId, active, autoRefresh)
    \/ \E ok \in BOOLEAN : OwnSaveSettled(ok)
    \/ SendNowResumed
    \/ \E success \in BOOLEAN : SendSettled(success)
    \/ \E inDocument \in BOOLEAN : AlertClosed(inDocument)
    \/ FormChanged
    \/ \E ok \in BOOLEAN : AutoSaveSettled(ok)

AppSpec == AppInit /\ [][AppNext]_vars

\* ---------------------------------------------------------------------
\* C30: whenever the send of sendNow has been issued, the promise of the
\* updateScheduleFromForm call sendNow made is fulfilled and the save that
\* call issued, if it issued one, is done: the send is never in flight
\* together with that save, nor issued before it or after its failure.
\* ---------------------------------------------------------------------
C30_SendOnlyAfterOwnSave ==
    (app.pc # "idle" /\ app.send # "none") =>
        /\ app.form = "fulfilled"
        /\ app.saveRequest \in {"none", "done"}
        /\ app.saveRequest = "none" <=> app.active = Undefined

\* the send is in flight after sendNow's own save is done, while a save of
\* a later form change is still in flight
C30_Witness ==
    /\ app.pc = "awaitSend"
    /\ app.send = "inflight"
    /\ app.saveRequest = "done"
    /\ app.saves > 0

\* the save failed and the send was never issued
C30_WitnessSaveFailed ==
    /\ app.pc = "done"
    /\ app.saveRequest = "failed"
    /\ app.send = "none"
    /\ app.out = "rejected"

\* ---------------------------------------------------------------------
\* C31: a run without --dry-run writes a file, commits or tags only on
\* branch 'main' with a clean working tree; on another branch or with
\* uncommitted changes it exits with status 1 having written nothing; and
\* the commits for the changelog are collected before any tag is created.
\* ---------------------------------------------------------------------
C31_ReleaseOnlyFromCleanMain ==
    (rel.pc # "idle" /\ ~rel.dryRun) =>
        /\ (rel.effects # {} \/ rel.commit # << >> \/ rel.tags # {}) =>
                (rel.branch = "main" /\ ~rel.dirty)
        /\ (rel.pc = "done" /\ (rel.branch # "main" \/ rel.dirty)) =>
                /\ rel.exit = 1
                /\ rel.packageJson = rel.currentVersion
                /\ rel.configYaml = rel.currentVersion
                /\ rel.changelog = << >>
        /\ \A i \in 1..Len(rel.trace) :
                rel.trace[i] = "git tag" =>
                    /\ \E j \in 1..(i - 1) : rel.trace[j] = "git log"
                    /\ rel.entries = Defined(rel.commits)

\* a release from a clean main that collected a commit, wrote the three
\* files and tagged
C31_Witness ==
    /\ rel.pc = "done"
    /\ ~rel.dryRun
    /\ rel.branch = "main"
    /\ ~rel.dirty
    /\ rel.exit = 0
    /\ rel.tags # {}
    /\ rel.changelog # << >>
    /\ rel.packageJson = rel.newVersion

\* a release refused on main because of uncommitted changes
C31_WitnessRefused ==
    /\ rel.pc = "done"
    /\ ~rel.dryRun
    /\ rel.branch = "main"
    /\ rel.dirty
    /\ rel.exit = 1
    /\ rel.effects = {}
    /\ rel.newVersion # << >>

\* ---------------------------------------------------------------------
\* C32: in any sequence of calls on one session, whenever a full page load
\* of a URL on the configured origin is in progress, the auth-injection
\* hook of that call is registered; so too for a subsequent navigation to
\* a dashboard path after a first navigation to an external URL.
\* ---------------------------------------------------------------------
C32_FullLoadOnOriginHasHook ==
    (pc = "goto" /\ SameOrigin(call.pageUrl, homeAssistantUrl)) =>
        /\ call.evaluateId # NoId
        /\ call.evaluateId \in scripts

\* ---------------------------------------------------------------------
\* C33: while WaitForNetworkIdle is listening its counter is never negative
\* and never below the number of requests whose start it observed and
\* whose finished/failed event has not arrived, whatever the order of the
\* events, events of requests started before the listeners included.
\* ---------------------------------------------------------------------
C33_CounterCoversObservedRequests ==
    (wni.pc # "idle" /\ wni.listening) =>
        /\ wni.pendingRequests >= 0
        /\ wni.pendingRequests >= wni.netSeen

\* ---------------------------------------------------------------------
\* C34: once WaitForNetworkIdle.call has created a channel, the channel is
\* detached when call() has returned, on every exit path, the degraded
\* ones after a throw of Network.enable or of a later step included.
\* ---------------------------------------------------------------------
C34_ChannelDetachedOnEveryExit ==
    (wni.pc = "done" /\ wni.channel # "none") =>
        /\ wni.channel = "detached"
        /\ wni.detachCalls >= 1

\* ---------------------------------------------------------------------
\* C35: on the non-degraded path WaitForNetworkIdle reports idle no earlier
\* than idleTime after the listeners were attached, with or without
\* network events, and never when timeout is smaller than idleTime.
\* ---------------------------------------------------------------------
C35_IdleNoEarlierThanIdleTime ==
    (wni.pc # "idle" /\ wni.idleReported) =>
        /\ wni.start + wni.actualWait >= wni.attachedAt + wni.idleTime
        /\ wni.actualWait >= wni.idleTime
        /\ wni.timeout >= wni.idleTime

\* idle reported exactly idleTime after the attach, no event observed, the
\* attach itself one tick after the start
C35_Witness ==
    /\ wni.pc = "done"
    /\ wni.result.kind = "idle"
    /\ wni.attachedAt > wni.start
    /\ wni.lastEventAt = wni.attachedAt
    /\ wni.start + wni.actualWait = wni.attachedAt + wni.idleTime

\* a call with timeout below idleTime ran its loop and ended by the timeout
C35_WitnessShortTimeout ==
    /\ wni.pc = "done"
    /\ wni.timeout < wni.idleTime
    /\ wni.polls > 0
    /\ wni.result.kind = "timeout"
    /\ wni.pendingRequests = 0

\* ---------------------------------------------------------------------
\* C36: when fetchHomeAssistantData has returned and its data is used, no
\* WebSocket connection it opened is still open: not after all messages
\* succeeded, not after a message was rejected, not after a failed REST
\* call, and not when the connection was established after the 5 s timeout
\* had fired.
\* ---------------------------------------------------------------------
C36_EveryConnectionClosed ==
    ui.pc \in {"readFile", "done"} =>
        /\ ~ui.open
        /\ ui.orphans = 0

\* ---------------------------------------------------------------------
\* PreviewGenerator.call
\* ---------------------------------------------------------------------

\* most previews started (a field change with auto-refresh starts one)
MaxPreviews == 3

\* #updateLoadingState(loading)
updateLoadingState(p, loading) ==
    IF loading
    THEN [p EXCEPT !.placeholderHidden = TRUE, !.imageHidden = TRUE,
                   !.errorHidden = TRUE, !.loadingHidden = FALSE]
    ELSE [p EXCEPT !.loadingHidden = TRUE]

\* #showError(message)
showError(p) ==
    [p EXCEPT !.errorHidden = FALSE, !.placeholderHidden = FALSE]

\* #displayImage(imageUrl, loadTimeMs), imageUrl being the blob URL of
\* request id
displayImage(p, id) ==
    [p EXCEPT !.revoked = IF p.currentBlobUrl # 0
                          THEN @ \cup {p.currentBlobUrl} ELSE @,
              !.image = id, !.imageHidden = FALSE,
              !.currentBlobUrl = id]

\* requests whose fetch has not settled
Pending(p) == {i \in 1..Len(p.outcomes) : p.outcomes[i] = "pending"}

\* call(schedule) up to its await: App.updateField or updateScheduleFromForm
\* started it through loadPreview without awaiting it
PreviewCalled ==
    /\ Len(pv.outcomes) < MaxPreviews
    /\ pv' = [updateLoadingState(pv, TRUE) EXCEPT
                !.outcomes = Append(@, "pending")]
    /\ UNCHANGED besidePreview

\* the fetch of request id resolved with a blob
PreviewFetched(id) ==
    /\ id \in Pending(pv)
    /\ pv' = [updateLoadingState(displayImage(pv, id), FALSE) EXCEPT
                !.outcomes[id] = "shown", !.order = Append(@, id)]
    /\ UNCHANGED besidePreview

\* the fetch of request id rejected
PreviewFailed(id) ==
    /\ id \in Pending(pv)
    /\ pv' = [updateLoadingState(showError(pv), FALSE) EXCEPT
                !.outcomes[id] = "failed", !.order = Append(@, id)]
    /\ UNCHANGED besidePreview

PreviewInit ==
    /\ PreviewIdle
    /\ NavIdle
    /\ DetectorsIdle
    /\ TargetIdle
    /\ ParamsIdle
    /\ UiIdle
    /\ ReleaseIdle
    /\ InteractIdle
    /\ AppIdle

PreviewNext ==
    \/ PreviewCalled
    \/ \E id \in 1..MaxPreviews : PreviewFetched(id)
    \/ \E id \in 1..MaxPreviews : PreviewFailed(id)

PreviewSpec == PreviewInit /\ [][PreviewNext]_vars

\* ---------------------------------------------------------------------
\* C37: with overlapping preview requests, once all of them have completed
\* and the most recently started one delivered an image, the image shown
\* is that one; and the loading indicator is visible as long as a request
\* is pending.
\* ---------------------------------------------------------------------
C37_LatestPreviewShown ==
    /\ (/\ pv.outcomes # << >>
        /\ Pending(pv) = {}
        /\ pv.outcomes[Len(pv.outcomes)] = "shown")
            => /\ pv.image = Len(pv.outcomes)
               /\ ~pv.imageHidden
    /\ Pending(pv) # {} => ~pv.loadingHidden

====
